---- MODULE Spec2Model ----
(***************************************************************************)
(* FastLS (v2, src/unnamed/part_001): a path-addressed store kept as one   *)
(* JSON document ("fastLS") in localStorage, one flat map per database.    *)
(*                                                                         *)
(* Strings are modelled as sequences of one-character strings, so that the *)
(* path functions (split, prefix stripping, validation, lower-casing) are  *)
(* computed character by character as the code computes them.  JSON values *)
(* are tagged records; an object keeps its properties in insertion order   *)
(* (a sequence of <<key, value>> pairs), as Object.keys reports them.      *)
(***************************************************************************)
EXTENDS Integers, Sequences, FiniteSets, TLC

(***************************************************************************)
(* JavaScript values                                                       *)
(***************************************************************************)
Null == [t |-> "null"]

Undef == [t |-> "undef"]

Num(n) == [t |-> "num", n |-> n]

Bool(b) == [t |-> "bool", b |-> b]

Str(s) == [t |-> "str", s |-> s]

Obj(kv) == [t |-> "obj", kv |-> kv]

Arr(e) == [t |-> "arr", e |-> e]

EmptyObj == Obj(<<>>)

\* JavaScript truthiness, as used by `x && ...`, `!x`, `x || {}`.
Truthy(v) ==
    CASE v.t = "null" -> FALSE
      [] v.t = "undef" -> FALSE
      [] v.t = "num" -> v.n # 0
      [] v.t = "bool" -> v.b
      [] v.t = "str" -> v.s # <<>>
      [] OTHER -> TRUE

\* typeof v === 'object' (null included, as in JavaScript).
TypeofObject(v) == v.t \in {"obj", "arr", "null"}

(***************************************************************************)
(* Characters and strings                                                  *)
(***************************************************************************)
Digits == <<"0", "1", "2", "3", "4", "5", "6", "7", "8", "9">>

IsDigit(c) == \E i \in 1..10 : Digits[i] = c

DigitVal(c) == (CHOOSE i \in 1..10 : Digits[i] = c) - 1

UpperChars ==
    <<"A", "B", "C", "D", "E", "F", "G", "H", "I", "J", "K", "L", "M",
      "N", "O", "P", "Q", "R", "S", "T", "U", "V", "W", "X", "Y", "Z">>

LowerChars ==
    <<"a", "b", "c", "d", "e", "f", "g", "h", "i", "j", "k", "l", "m",
      "n", "o", "p", "q", "r", "s", "t", "u", "v", "w", "x", "y", "z">>

\* \w of the regular expressions: letters, digits, underscore.
IsWord(c) ==
    \/ IsDigit(c)
    \/ c = "_"
    \/ \E i \in 1..Len(UpperChars) : UpperChars[i] = c \/ LowerChars[i] = c

\* String.prototype.toLowerCase, one character.
LowerChar(c) ==
    IF \E i \in 1..Len(UpperChars) : UpperChars[i] = c
    THEN LowerChars[CHOOSE i \in 1..Len(UpperChars) : UpperChars[i] = c]
    ELSE c

toLowerCase(s) == [i \in 1..Len(s) |-> LowerChar(s[i])]

\* s.includes(c) for a one-character c.
Includes(s, c) == \E i \in 1..Len(s) : s[i] = c

\* Index of the first occurrence of a character of set cs in s, 0 if none.
FirstIn(s, cs) ==
    IF \E i \in 1..Len(s) : s[i] \in cs
    THEN CHOOSE i \in 1..Len(s) : s[i] \in cs /\ \A j \in 1..(i - 1) : s[j] \notin cs
    ELSE 0

\* s.split(sep) for a set of one-character separators: the pieces, empty ones kept.
RECURSIVE Split(_, _)
Split(s, cs) ==
    LET i == FirstIn(s, cs) IN
    IF i = 0 THEN <<s>>
    ELSE <<SubSeq(s, 1, i - 1)>> \o Split(SubSeq(s, i + 1, Len(s)), cs)

\* parts.join(sep)
RECURSIVE Join(_, _)
Join(parts, sep) ==
    IF parts = <<>> THEN <<>>
    ELSE IF Len(parts) = 1 THEN parts[1]
    ELSE parts[1] \o <<sep>> \o Join(Tail(parts), sep)

\* s.startsWith(p)
StartsWith(s, p) == Len(s) >= Len(p) /\ SubSeq(s, 1, Len(p)) = p

\* parseInt of a string of decimal digits.
RECURSIVE parseInt(_)
parseInt(ds) ==
    IF ds = <<>> THEN 0
    ELSE 10 * parseInt(SubSeq(ds, 1, Len(ds) - 1)) + DigitVal(ds[Len(ds)])

BackSlash == "\\"

PathSeparators == {"/", BackSlash}

(***************************************************************************)
(* Path normalisation and validation                                       *)
(***************************************************************************)
\* path.replace(/^[^:]+:/, ''): drops a leading "<one or more non-colons>:".
StripFlagPrefix(s) ==
    LET i == FirstIn(s, {":"}) IN
    IF i >= 2 THEN SubSeq(s, i + 1, Len(s)) ELSE s

\* The loop of _normalizePath over the pieces: '..' pops, '' and '.' are skipped.
RECURSIVE NormalizeParts(_, _)
NormalizeParts(parts, normalized) ==
    IF parts = <<>> THEN normalized
    ELSE LET part == Head(parts) IN
         IF part = <<".", ".">>
         THEN NormalizeParts(Tail(parts),
                             IF normalized = <<>> THEN <<>>
                             ELSE SubSeq(normalized, 1, Len(normalized) - 1))
         ELSE IF part = <<>> \/ part = <<".">>
         THEN NormalizeParts(Tail(parts), normalized)
         ELSE NormalizeParts(Tail(parts), Append(normalized, part))

\* _normalizePath: a value that is not a non-empty string gives ''.
normalizePath(path) ==
    IF path.t # "str" \/ path.s = <<>> THEN <<>>
    ELSE Join(NormalizeParts(Split(StripFlagPrefix(path.s), PathSeparators), <<>>),
              BackSlash)

\* What _validatePath would be if it accepted every path.
acceptsEveryPath(path) == FALSE

\* _validatePath: TRUE when it throws.
validatePathThrows(path) ==
    \/ path # <<>> /\ (Includes(path, ":") \/ Includes(path, BackSlash))
    \/ path = <<".", ".">>

NoDb == <<>>

\* _parseFullPath: /^([^:]+):(.*)$/ splits at the first colon when at least one
\* character precedes it; dbName NoDb stands for null.
parseFullPath(fullPath) ==
    IF fullPath.t # "str" THEN [dbName |-> NoDb, path |-> <<>>]
    ELSE LET i == FirstIn(fullPath.s, {":"}) IN
         IF i >= 2
         THEN [dbName |-> SubSeq(fullPath.s, 1, i - 1),
               path |-> normalizePath(Str(SubSeq(fullPath.s, i + 1, Len(fullPath.s))))]
         ELSE [dbName |-> NoDb, path |-> normalizePath(fullPath)]

(***************************************************************************)
(* Property access on values                                               *)
(***************************************************************************)
\* A canonical array index: decimal digits without a leading zero.
IsIndexKey(k) ==
    /\ k # <<>>
    /\ \A i \in 1..Len(k) : IsDigit(k[i])
    /\ (Len(k) = 1 \/ k[1] # "0")

\* Position of key k among the properties of object o, 0 if absent.
KeyPos(o, k) ==
    IF \E i \in 1..Len(o.kv) : o.kv[i][1] = k
    THEN CHOOSE i \in 1..Len(o.kv) : o.kv[i][1] = k
    ELSE 0

HasKey(o, k) == KeyPos(o, k) # 0

RECURSIVE IndexString(_)
IndexString(n) ==
    IF n < 10 THEN <<Digits[n + 1]>>
    ELSE IndexString(n \div 10) \o <<Digits[(n % 10) + 1]>>

\* Object.keys(v), in JavaScript's order.
ObjectKeys(v) ==
    IF v.t = "obj" THEN [i \in 1..Len(v.kv) |-> v.kv[i][1]]
    ELSE IF v.t = "arr" THEN [i \in 1..Len(v.e) |-> IndexString(i - 1)]
    ELSE IF v.t = "str" THEN [i \in 1..Len(v.s) |-> IndexString(i - 1)]
    ELSE <<>>

LengthKey == <<"l", "e", "n", "g", "t", "h">>

\* v[k]: own properties of an object, elements and length of an array, characters
\* and length of a string; undefined on the other primitives.
GetProp(v, k) ==
    IF v.t = "obj"
    THEN (IF HasKey(v, k) THEN v.kv[KeyPos(v, k)][2] ELSE Undef)
    ELSE IF v.t = "arr"
    THEN (IF IsIndexKey(k) /\ parseInt(k) < Len(v.e) THEN v.e[parseInt(k) + 1]
          ELSE IF k = LengthKey THEN Num(Len(v.e))
          ELSE Undef)
    ELSE IF v.t = "str"
    THEN (IF IsIndexKey(k) /\ parseInt(k) < Len(v.s) THEN Str(<<v.s[parseInt(k) + 1]>>)
          ELSE IF k = LengthKey THEN Num(Len(v.s))
          ELSE Undef)
    ELSE Undef

\* arr[index]
ElemAt(arr, index) == IF index < Len(arr.e) THEN arr.e[index + 1] ELSE Undef

\* Where a new property k is inserted: integer-like keys come first, in ascending
\* order, then the other keys in insertion order.
InsertPos(o, k) ==
    IF IsIndexKey(k)
    THEN Cardinality({i \in 1..Len(o.kv) :
                        IsIndexKey(o.kv[i][1]) /\ parseInt(o.kv[i][1]) < parseInt(k)}) + 1
    ELSE Len(o.kv) + 1

\* while (arr.length <= index) arr.push(filler)
PadTo(arr, index, filler) ==
    Arr([i \in 1..(IF Len(arr.e) > index THEN Len(arr.e) ELSE index + 1) |->
            IF i <= Len(arr.e) THEN arr.e[i] ELSE filler])

\* v[k] = x for an object or an array v.  A property of an array that is not an
\* index is not serialized: the array is returned as it was.
PutProp(v, k, x) ==
    IF v.t = "obj"
    THEN IF HasKey(v, k)
         THEN Obj([v.kv EXCEPT ![KeyPos(v, k)] = <<k, x>>])
         ELSE LET p == InsertPos(v, k) IN
              Obj(SubSeq(v.kv, 1, p - 1) \o << <<k, x>> >> \o SubSeq(v.kv, p, Len(v.kv)))
    ELSE IF v.t = "arr" /\ IsIndexKey(k)
    THEN LET a == PadTo(v, parseInt(k), Undef) IN
         Arr([a.e EXCEPT ![parseInt(k) + 1] = x])
    ELSE v

\* delete o[k] for an object o.
DeleteProp(o, k) ==
    IF o.t = "obj" /\ HasKey(o, k)
    THEN Obj(SubSeq(o.kv, 1, KeyPos(o, k) - 1) \o SubSeq(o.kv, KeyPos(o, k) + 1, Len(o.kv)))
    ELSE o

\* Object.keys(current).find(k => k.toLowerCase() === key.toLowerCase()):
\* the first such key, <<>> when there is none (undefined and '' are both falsy).
FindKeyIgnoreCase(current, key) ==
    LET ks == ObjectKeys(current)
        hit == {i \in 1..Len(ks) : toLowerCase(ks[i]) = toLowerCase(key)} IN
    IF hit = {} THEN <<>>
    ELSE ks[CHOOSE i \in hit : \A j \in hit : i <= j]

\* key.match(/(\w+)\[(\d+)\]/): the leftmost "[" that follows a word character and
\* is followed by digits and "]"; the name is the run of word characters before it.
ArrayMatch(key) ==
    LET Close(i) == IF \E j \in (i + 2)..Len(key) : key[j] = "]"
                    THEN CHOOSE j \in (i + 2)..Len(key) :
                            key[j] = "]" /\ \A m \in (i + 2)..(j - 1) : key[m] # "]"
                    ELSE 0
        Good(i) == /\ key[i] = "["
                   /\ i >= 2 /\ IsWord(key[i - 1])
                   /\ Close(i) # 0
                   /\ \A m \in (i + 1)..(Close(i) - 1) : IsDigit(key[m])
        hits == {i \in 1..Len(key) : Good(i)} IN
    IF hits = {} THEN [ok |-> FALSE, name |-> <<>>, index |-> 0]
    ELSE LET i == CHOOSE h \in hits : \A g \in hits : h <= g
             st == CHOOSE a \in 1..(i - 1) :
                      /\ \A m \in a..(i - 1) : IsWord(key[m])
                      /\ (a = 1 \/ ~IsWord(key[a - 1])) IN
         [ok |-> TRUE, name |-> SubSeq(key, st, i - 1),
          index |-> parseInt(SubSeq(key, i + 1, Close(i) - 1))]

(***************************************************************************)
(* Nested value access                                                     *)
(***************************************************************************)
\* The loop of _getValueByPath over the dot-separated keys.
RECURSIVE GetLoop(_, _, _)
GetLoop(current, keys, caseSen) ==
    IF keys = <<>> THEN current
    ELSE IF current.t \notin {"obj", "arr"} THEN Undef
    ELSE LET key == Head(keys)
             m == ArrayMatch(key)
             next ==
               IF m.ok
               THEN LET a == GetProp(current, m.name) IN
                    IF a.t = "arr" THEN [ret |-> FALSE, v |-> ElemAt(a, m.index)]
                    ELSE [ret |-> TRUE, v |-> Undef]
               ELSE IF ~caseSen
               THEN LET foundKey == FindKeyIgnoreCase(current, key) IN
                    [ret |-> FALSE,
                     v |-> IF foundKey # <<>> THEN GetProp(current, foundKey) ELSE Undef]
               ELSE [ret |-> FALSE, v |-> GetProp(current, key)] IN
         IF next.ret \/ next.v = Undef THEN Undef
         ELSE GetLoop(next.v, Tail(keys), caseSen)

\* _getValueByPath(obj, path)
getValueByPath(obj, path, caseSen) ==
    IF path = <<>> \/ ~Truthy(obj) THEN obj
    ELSE GetLoop(obj, Split(path, {"."}), caseSen)

TypeError == [t |-> "TypeError"]

\* The body of _setValueByPath from `current` on: the container updated, or
\* TypeError where the code reads a property of null/undefined or, in strict
\* mode, assigns a property of a primitive.
RECURSIVE SetLoop(_, _, _, _)
SetLoop(current, keys, value, caseSen) ==
    IF current.t \notin {"obj", "arr"} THEN TypeError
    ELSE
    LET key == Head(keys)
        last == Len(keys) = 1
        m == ArrayMatch(key) IN
    IF m.ok
    THEN LET a0 == GetProp(current, m.name)
             a1 == IF ~Truthy(a0) \/ a0.t # "arr" THEN Arr(<<>>) ELSE a0
             a2 == PadTo(a1, m.index, IF last THEN Undef ELSE EmptyObj)
             child == IF last THEN value
                      ELSE SetLoop(a2.e[m.index + 1], Tail(keys), value, caseSen) IN
         IF child = TypeError THEN TypeError
         ELSE PutProp(current, m.name, Arr([a2.e EXCEPT ![m.index + 1] = child]))
    ELSE LET foundKey == IF ~caseSen THEN FindKeyIgnoreCase(current, key) ELSE <<>>
             actualKey == IF foundKey # <<>> THEN foundKey ELSE key
             c0 == GetProp(current, actualKey)
             c1 == IF c0.t \in {"obj", "arr"} THEN c0 ELSE EmptyObj
             child == IF last THEN value
                      ELSE SetLoop(c1, Tail(keys), value, caseSen) IN
         IF child = TypeError THEN TypeError
         ELSE PutProp(current, actualKey, child)

\* _setValueByPath(obj, path, value): an empty path returns the value itself.
setValueByPath(obj, path, value, caseSen) ==
    IF path = <<>> THEN value
    ELSE IF ~Truthy(obj) THEN obj
    ELSE SetLoop(obj, Split(path, {"."}), value, caseSen)

(***************************************************************************)
(* Serialization                                                           *)
(***************************************************************************)
FunctionKey == <<"__fastls_exception_function">>

RevivedFunctionKey == <<"__fastls_function">>

ShortcutKey == <<"__fastls_exception_shortcut">>

\* What JSON.stringify keeps of a value: a property whose value is undefined is
\* dropped, an undefined array element becomes null.  The stored text is
\* represented by this tree.
RECURSIVE JsonTree(_)
JsonTree(v) ==
    IF v.t = "obj"
    THEN LET keep == SelectSeq(v.kv, LAMBDA p : p[2] # Undef) IN
         Obj([i \in 1..Len(keep) |-> <<keep[i][1], JsonTree(keep[i][2])>>])
    ELSE IF v.t = "arr"
    THEN Arr([i \in 1..Len(v.e) |-> IF v.e[i] = Undef THEN Null ELSE JsonTree(v.e[i])])
    ELSE v

\* _serializeData (no gzip): the text of a value, as its JSON tree.
serializeData(data) == JsonTree(data)

\* The reviver of _deserializeData, applied bottom-up as JSON.parse does: an object
\* with a truthy __fastls_exception_function becomes { __fastls_function: ... }.
RECURSIVE Revive(_)
Revive(v) ==
    IF v.t = "obj"
    THEN LET o == Obj([i \in 1..Len(v.kv) |-> <<v.kv[i][1], Revive(v.kv[i][2])>>]) IN
         IF Truthy(GetProp(o, FunctionKey))
         THEN Obj(<< <<RevivedFunctionKey, GetProp(o, FunctionKey)>> >>)
         ELSE o
    ELSE IF v.t = "arr"
    THEN Arr([i \in 1..Len(v.e) |-> Revive(v.e[i])])
    ELSE v

\* _deserializeData (no gzip) of a stored text.
deserializeData(text) == Revive(text)

RECURSIVE SumSeq(_)
SumSeq(ns) == IF ns = <<>> THEN 0 ELSE Head(ns) + SumSeq(Tail(ns))

RECURSIVE DecimalLen(_)
DecimalLen(n) ==
    IF n < 0 THEN 1 + DecimalLen(0 - n)
    ELSE IF n < 10 THEN 1 ELSE 1 + DecimalLen(n \div 10)

\* Bytes of a string inside JSON text: quotes, and an escape for \ and ".
QuotedLen(s) ==
    2 + SumSeq([i \in 1..Len(s) |->
                   IF s[i] \in {BackSlash, "\""} THEN 2 ELSE Len(s[i])])

\* Byte length of the JSON text of a tree produced by JsonTree.
RECURSIVE TextLen(_)
TextLen(j) ==
    CASE j.t = "null" -> 4
      [] j.t = "undef" -> 9
      [] j.t = "bool" -> (IF j.b THEN 4 ELSE 5)
      [] j.t = "num" -> DecimalLen(j.n)
      [] j.t = "str" -> QuotedLen(j.s)
      [] j.t = "obj" ->
           2 + SumSeq([i \in 1..Len(j.kv) |->
                          QuotedLen(j.kv[i][1]) + 1 + TextLen(j.kv[i][2])])
             + (IF Len(j.kv) > 1 THEN Len(j.kv) - 1 ELSE 0)
      [] j.t = "arr" ->
           2 + SumSeq([i \in 1..Len(j.e) |-> TextLen(j.e[i])])
             + (IF Len(j.e) > 1 THEN Len(j.e) - 1 ELSE 0)

\* _calculateSize: new Blob([this._serializeData(data)]).size
calculateSize(data) == TextLen(serializeData(data))

\* value && value.__fastls_exception_shortcut
IsShortcut(value) ==
    /\ Truthy(value)
    /\ value.t \in {"obj", "arr"}
    /\ Truthy(GetProp(value, ShortcutKey))

(***************************************************************************)
(* Quota checks                                                            *)
(***************************************************************************)
\* key.startsWith(folderPath + '\\') || key === folderPath
UnderFolder(key, folderPath) ==
    StartsWith(key, folderPath \o <<BackSlash>>) \/ key = folderPath

\* _calculateFolderSize(db, folderPath)
calculateFolderSize(db, folderPath) ==
    LET ks == ObjectKeys(db) IN
    SumSeq([n \in 1..Len(ks) |->
              IF UnderFolder(ks[n], folderPath)
              THEN calculateSize(GetProp(db, ks[n])) ELSE 0])

\* The decision both branches of _checkQuotaBeforeSet take once the projected
\* size exceeds the budget.
OverBudget(newValueSize, quota) ==
    IF newValueSize <= quota
    THEN [allowed |-> TRUE, storeNull |-> TRUE, msg |-> "storedNull"]
    ELSE [allowed |-> FALSE, storeNull |-> FALSE, msg |-> "cannotSave"]

\* The global branch of _checkQuotaBeforeSet; quota is Null or Num(bytes).
CheckGlobalQuota(quota, db, path, value) ==
    IF quota = Null THEN [allowed |-> TRUE, storeNull |-> FALSE, msg |-> "null"]
    ELSE LET currentSize == calculateSize(db)
             newValueSize == calculateSize(value)
             currentPathSize == IF Truthy(GetProp(db, path))
                                THEN calculateSize(GetProp(db, path)) ELSE 0
             projectedSize == currentSize - currentPathSize + newValueSize IN
         IF projectedSize > quota.n THEN OverBudget(newValueSize, quota.n)
         ELSE IF projectedSize = quota.n
         THEN [allowed |-> TRUE, storeNull |-> FALSE, msg |-> "meet"]
         ELSE [allowed |-> TRUE, storeNull |-> FALSE, msg |-> "null"]

\* _checkQuotaBeforeSet(db, path, value) of an instance with the given global quota
\* and folder quotas (a Map, as the sequence of its <<folderPath, bytes>> entries in
\* insertion order): the result, and the quotaMessage it leaves.
checkQuotaBeforeSet(quota, folderQuotas, db, path, value) ==
    LET hits == {n \in 1..Len(folderQuotas) : UnderFolder(path, folderQuotas[n][1])} IN
    IF hits # {}
    THEN LET n == CHOOSE h \in hits : \A g \in hits : h <= g
             folderPath == folderQuotas[n][1]
             fquota == folderQuotas[n][2]
             currentFolderSize == calculateFolderSize(db, folderPath)
             newValueSize == calculateSize(value)
             currentPathSize == IF Truthy(GetProp(db, path))
                                THEN calculateSize(GetProp(db, path)) ELSE 0
             projectedSize == currentFolderSize - currentPathSize + newValueSize IN
         IF projectedSize > fquota THEN OverBudget(newValueSize, fquota)
         ELSE CheckGlobalQuota(quota, db, path, value)
    ELSE CheckGlobalQuota(quota, db, path, value)

\* Map.prototype.set on the folder quotas: an existing key keeps its place.
MapSet(m, k, x) ==
    IF \E n \in 1..Len(m) : m[n][1] = k
    THEN [n \in 1..Len(m) |-> IF m[n][1] = k THEN <<k, x>> ELSE m[n]]
    ELSE Append(m, <<k, x>>)

\* Map.prototype.delete
MapDelete(m, k) == SelectSeq(m, LAMBDA e : e[1] # k)

(***************************************************************************)
(* Removal strategies                                                      *)
(***************************************************************************)
\* Object.entries(v), in JavaScript's order.
Entries(v) ==
    [i \in 1..Len(ObjectKeys(v)) |-> <<ObjectKeys(v)[i], GetProp(v, ObjectKeys(v)[i])>>]

\* newDB[key] = value for each of the entries es in turn, starting from object o.
RECURSIVE FromEntries(_, _)
FromEntries(es, o) ==
    IF es = <<>> THEN o
    ELSE FromEntries(Tail(es), PutProp(o, Head(es)[1], Head(es)[2]))

\* { ...db }
Spread(db) == FromEntries(Entries(db), EmptyObj)

\* key.substring(from)
Substring(key, from) == SubSeq(key, from + 1, Len(key))

\* What _deleteFolder would be if it matched keys on the bare string prefix
\* (key.startsWith(folderPath)) instead of on folderPath + '\\'.
deleteByStringPrefix(db, folderPath) ==
    FromEntries(SelectSeq(Entries(db), LAMBDA e : ~StartsWith(e[1], folderPath)),
                EmptyObj)

\* _deleteFolder(db, folderPath)
deleteFolder(db, folderPath) ==
    FromEntries(SelectSeq(Entries(db),
                          LAMBDA e : /\ ~StartsWith(e[1], folderPath \o <<BackSlash>>)
                                     /\ e[1] # folderPath),
                EmptyObj)

\* _deleteRootKeys(db, folderPath)
deleteRootKeys(db, folderPath) ==
    FromEntries(SelectSeq(Entries(db),
                          LAMBDA e :
                            \/ ~StartsWith(e[1], folderPath \o <<BackSlash>>)
                            \/ /\ StartsWith(e[1], folderPath \o <<BackSlash>>)
                               /\ ~Includes(Substring(e[1], Len(folderPath) + 1), BackSlash)),
                EmptyObj)

\* What _deleteFolderContents would be if it emptied the value of every key,
\* whatever the folder.
emptyEveryValue(db, folderPath) ==
    FromEntries([i \in 1..Len(Entries(db)) |-> <<Entries(db)[i][1], EmptyObj>>], EmptyObj)

\* _deleteFolderContents(db, folderPath)
deleteFolderContents(db, folderPath) ==
    FromEntries([i \in 1..Len(Entries(db)) |->
                   IF \/ StartsWith(Entries(db)[i][1], folderPath \o <<BackSlash>>)
                      \/ Entries(db)[i][1] = folderPath
                   THEN <<Entries(db)[i][1], EmptyObj>>
                   ELSE Entries(db)[i]],
                EmptyObj)

\* _deleteNestedFolders(db, folderPath)
deleteNestedFolders(db, folderPath) ==
    FromEntries(SelectSeq(Entries(db),
                          LAMBDA e :
                            \/ ~StartsWith(e[1], folderPath \o <<BackSlash>>)
                            \/ /\ StartsWith(e[1], folderPath \o <<BackSlash>>)
                               /\ ~Includes(Substring(e[1], Len(folderPath) + 1), BackSlash)),
                EmptyObj)

\* The switch of remove on the strategy token; an unknown token is warned about
\* and leaves the map as it is.
ApplyStrategy(updatedDB, normalizedPath, operation) ==
    CASE operation = "folder" -> deleteFolder(updatedDB, normalizedPath)
      [] operation = "root" -> deleteRootKeys(updatedDB, normalizedPath)
      [] operation = "structure" -> deleteFolderContents(updatedDB, normalizedPath)
      [] operation = "nestedFolders" -> deleteNestedFolders(updatedDB, normalizedPath)
      [] OTHER -> updatedDB

KnownStrategies == {"folder", "root", "structure", "nestedFolders"}

\* One turn of the loop of remove over the pair <<path, operation>>.  The loop
\* state holds updatedDB, whether the call has returned (pair null, 'database'),
\* the maps held after each pair so far, and the tokens warned about.
RemoveStep(st, pair) ==
    IF st.returned THEN st
    ELSE IF pair[1] = Null /\ pair[2] = "database"
    THEN [st EXCEPT !.returned = TRUE]
    ELSE IF pair[1] \in {Null, Str(<<>>), Str(<<BackSlash>>)} /\ pair[2] = "databaseKeys"
    THEN [st EXCEPT !.db = EmptyObj, !.steps = Append(@, EmptyObj)]
    ELSE [st EXCEPT
            !.db = ApplyStrategy(@, normalizePath(pair[1]), pair[2]),
            !.steps = Append(@, ApplyStrategy(st.db, normalizePath(pair[1]), pair[2])),
            !.warn = IF pair[2] \in KnownStrategies THEN @ ELSE Append(@, pair[2])]

\* for (let i = 0; i < operations.length; i += 2) ... over the pairs of the call
RECURSIVE RemoveLoop(_, _)
RemoveLoop(st, operations) ==
    IF operations = <<>> THEN st
    ELSE RemoveLoop(RemoveStep(st, Head(operations)), Tail(operations))

(***************************************************************************)
(* FastLS v1 (src/index.js): values are stored as JSON strings             *)
(***************************************************************************)
\* A string that holds the JSON text of tree j.
Text(j) == [t |-> "text", j |-> j]

\* A BigInt, which JSON.stringify does not serialize.
BigInt(n) == [t |-> "bigint", n |-> n]

RECURSIVE HoldsBigInt(_)
HoldsBigInt(v) ==
    \/ v.t = "bigint"
    \/ v.t = "obj" /\ \E i \in 1..Len(v.kv) : HoldsBigInt(v.kv[i][2])
    \/ v.t = "arr" /\ \E i \in 1..Len(v.e) : HoldsBigInt(v.e[i])

\* The Error('Value serialization failed: ...') that _serializeValue throws.
SerializationError == [t |-> "SerializationError"]

\* _serializeValue (allowUnserializable false; the values here hold no function
\* and no promise): JSON.stringify(value), undefined for undefined; JSON.stringify
\* throws on a BigInt anywhere in the value.
serializeValue(value) ==
    IF HoldsBigInt(value) THEN SerializationError
    ELSE IF value = Undef THEN Undef ELSE Text(JsonTree(value))

\* _deserializeValue: JSON.parse(value), the value itself when parsing throws.
\* A value that is not a string is converted to its text first: a number, a
\* boolean and null parse to themselves, an object or an array does not parse.
deserializeValue(value) ==
    IF value.t = "text" THEN value.j
    ELSE IF value.t = "str" /\ IsIndexKey(value.s) THEN Num(parseInt(value.s))
    ELSE value

\* _parsePath: the parts between dots, name[12] giving the two keys name and 12
\* (indices are written without leading zeros here).
parsePath(path) ==
    IF path.t # "str" THEN <<>>
    ELSE LET parts == Split(path.s, {"."})
             Keys(part) == IF ArrayMatch(part).ok
                           THEN <<ArrayMatch(part).name, IndexString(ArrayMatch(part).index)>>
                           ELSE <<part>>
             F[n \in 0..Len(parts)] == IF n = 0 THEN <<>> ELSE F[n - 1] \o Keys(parts[n])
         IN  F[Len(parts)]

\* The loop of v1's _setValueByPath over keys, from current on; reading or
\* creating a property of null, undefined or a primitive throws in strict code.
RECURSIVE SetKeys(_, _, _)
SetKeys(current, keys, value) ==
    IF current.t \notin {"obj", "arr"} THEN TypeError
    ELSE IF Len(keys) = 1 THEN PutProp(current, keys[1], value)
    ELSE LET next == IF GetProp(current, keys[1]).t \in {"obj", "arr"}
                     THEN GetProp(current, keys[1]) ELSE EmptyObj
             inner == SetKeys(next, Tail(keys), value)
         IN  IF inner = TypeError THEN TypeError ELSE PutProp(current, keys[1], inner)

\* v1's _setValueByPath(obj, path, value)
indexSetValueByPath(obj, path, value) ==
    IF parsePath(path) = <<>> THEN value ELSE SetKeys(obj, parsePath(path), value)

\* The loop of v1's _getValueByPath over keys.
RECURSIVE GetKeys(_, _)
GetKeys(current, keys) ==
    IF keys = <<>> THEN current
    ELSE IF current.t \notin {"obj", "arr"} THEN Undef
    ELSE GetKeys(GetProp(current, Head(keys)), Tail(keys))

\* v1's _getValueByPath(obj, path)
indexGetValueByPath(obj, path) ==
    IF ~Truthy(path) THEN obj ELSE GetKeys(obj, parsePath(path))

\* What the loop of _deleteValueByPath would do if it removed an array element
\* with splice, moving the later elements down.
RECURSIVE DeleteKeysSplicing(_, _)
DeleteKeysSplicing(current, keys) ==
    IF current.t \in {"null", "undef"} THEN TypeError
    ELSE IF Len(keys) = 1
    THEN (IF GetProp(current, keys[1]) = Undef THEN current
          ELSE IF current.t = "obj" THEN DeleteProp(current, keys[1])
          ELSE IF current.t = "arr" /\ IsIndexKey(keys[1])
          THEN Arr(SubSeq(current.e, 1, parseInt(keys[1]))
                   \o SubSeq(current.e, parseInt(keys[1]) + 2, Len(current.e)))
          ELSE IF current.t = "arr" THEN current
          ELSE TypeError)
    ELSE IF GetProp(current, keys[1]).t \notin {"obj", "arr"} THEN current
    ELSE LET inner == DeleteKeysSplicing(GetProp(current, keys[1]), Tail(keys)) IN
         IF inner = TypeError THEN TypeError ELSE PutProp(current, keys[1], inner)

\* The loop of _deleteValueByPath over keys, from current on: reading a property
\* of null or undefined throws, as does deleting a character of a string; a
\* deleted array element leaves a hole.
RECURSIVE DeleteKeys(_, _)
DeleteKeys(current, keys) ==
    IF current.t \in {"null", "undef"} THEN TypeError
    ELSE IF Len(keys) = 1
    THEN (IF GetProp(current, keys[1]) = Undef THEN current
          ELSE IF current.t = "obj" THEN DeleteProp(current, keys[1])
          ELSE IF current.t = "arr" /\ IsIndexKey(keys[1]) THEN PutProp(current, keys[1], Undef)
          ELSE IF current.t = "arr" THEN current
          ELSE TypeError)
    ELSE IF GetProp(current, keys[1]).t \notin {"obj", "arr"} THEN current
    ELSE LET inner == DeleteKeys(GetProp(current, keys[1]), Tail(keys)) IN
         IF inner = TypeError THEN TypeError ELSE PutProp(current, keys[1], inner)

\* _deleteValueByPath(obj, path)
deleteValueByPath(obj, path) ==
    IF parsePath(path) = <<>> THEN obj ELSE DeleteKeys(obj, parsePath(path))

(***************************************************************************)
(* State                                                                   *)
(***************************************************************************)
VARIABLES
    root,    \* the 'fastLS' item of localStorage: database name -> stored text (JSON tree)
    inst,    \* the FastLS instances of the page: id -> configuration and quota state
    calls,   \* promise-mode operations in flight, each at its next timer callback
    hist,    \* the calls that have completed, oldest first, with their results
    keep     \* how many completed calls hist retains (fixed by the initial state)

vars == <<root, inst, calls, hist, keep>>

\* _getRoot: every database of the stored document, deserialized.
getRoot == [d \in DOMAIN root |-> deserializeData(root[d])]

\* The document _saveRoot writes for an in-memory root r: a database whose value is
\* undefined is not serialized.
SavedRoot(r) ==
    [d \in {x \in DOMAIN r : r[x] # Undef} |-> serializeData(r[d])]

\* root[name] of an in-memory root, undefined when absent.
RootGet(r, name) == IF name \in DOMAIN r THEN r[name] ELSE Undef

\* root[name] = db on an in-memory root.
RootPut(r, name, db) == [d \in DOMAIN r \cup {name} |-> IF d = name THEN db ELSE r[d]]

\* What _initLocalStorage would write if it created the database whether or not
\* the root already held it.
initAlwaysCreating(doc, name) ==
    SavedRoot(RootPut([d \in DOMAIN doc |-> deserializeData(doc[d])], name, EmptyObj))

\* The stored document after `new FastLS(name)` ran _initLocalStorage on document
\* doc: a missing (or falsy) database is created empty and the root is saved.
AfterInit(doc, name) ==
    LET r == [d \in DOMAIN doc |-> deserializeData(doc[d])] IN
    IF ~Truthy(RootGet(r, name)) THEN SavedRoot(RootPut(r, name, EmptyObj)) ELSE doc

\* _getDatabase of an instance bound to name: root[this.dbName] || {}
getDatabase(name) ==
    IF Truthy(RootGet(getRoot, name)) THEN RootGet(getRoot, name) ELSE EmptyObj

\* What _saveDatabase would write if it put db under every name of the root.
saveUnderEveryName(name, db) ==
    SavedRoot([d \in DOMAIN getRoot \cup {name} |-> db])

\* What _saveDatabase would write if it merged db into the map stored by then.
saveMerged(name, db) ==
    SavedRoot(RootPut(getRoot, name, FromEntries(Entries(db), getDatabase(name))))

\* The stored document after _saveDatabase(db) of an instance bound to name.
saveDatabase(name, db) == SavedRoot(RootPut(getRoot, name, db))

\* Results of calls that are not plain values.
Thrown(e) == [t |-> "thrown", e |-> e]

ErrorMessage(e) == [t |-> "error", e |-> e]

SetResult(q) ==
    [t |-> "set", saveResult |-> Null, allowed |-> q.allowed, storeNull |-> q.storeNull,
     quotaMessage |-> q.msg]

Rejected == [t |-> "rejected", allowed |-> FALSE]

\* A completed call: who called what, the stored document when the call was made
\* and when it completed, the quotaMessage the instance then shows, and what the
\* caller got.
Done(c, res) ==
    [op |-> c.op, i |-> c.i, arg |-> c.arg, val |-> c.val, pre |-> c.pre,
     cfg |-> c.cfg, post |-> root', status |-> inst'[c.i].quotaMessage, res |-> res,
     saves |-> c.saves, loads |-> c.loads, steps |-> c.steps, warn |-> c.warn]

\* The database a call on instance i addresses: another one when the path names it.
\* hist with one more completed call, the oldest dropped beyond `keep`.
Log(rec) ==
    IF Len(hist) >= keep THEN Append(Tail(hist), rec) ELSE Append(hist, rec)

\* hist when a call starts: room is made for its record.
Room == IF Len(hist) >= keep THEN Tail(hist) ELSE hist

TargetOf(i, parsed) ==
    IF parsed.dbName # NoDb /\ parsed.dbName # inst[i].dbName
    THEN parsed.dbName ELSE inst[i].dbName

(***************************************************************************)
(* Operations                                                              *)
(***************************************************************************)
\* The loads of a call are counted cyclically, 1..CountCap: a call that
\* completes within CountCap loads shows their number.
CountCap == 3

CountUp(k) == (k % CountCap) + 1

\* The completed-call record of a call that ends in the step that made it.
Call(op, i, arg, val) ==
    [op |-> op, i |-> i, arg |-> arg, val |-> val, pre |-> root, cfg |-> inst[i],
     saves |-> 0, loads |-> 0, steps |-> <<>>, warn |-> <<>>]

\* A call in flight: the database it addresses, the normalised path, the map it
\* holds in memory, the timer callback it waits for, and the configuration of the
\* instance when it last consulted it.
Pending(op, i, arg, val, target, path) ==
    [op |-> op, i |-> i, arg |-> arg, val |-> val, pre |-> root, cfg |-> inst[i],
     saves |-> 0, loads |-> 0, steps |-> <<>>, warn |-> <<>>,
     pc |-> "load", target |-> target, path |-> path, db |-> Undef,
     q |-> [allowed |-> TRUE, storeNull |-> FALSE, msg |-> "null"]]

\* The call in flight at position n completes, as record c, with result res.
Finish(n, c, res) ==
    /\ calls' = SubSeq(calls, 1, n - 1) \o SubSeq(calls, n + 1, Len(calls))
    /\ hist' = Log(Done(c, res))

\* In direct-call mode get and set assign operation.name, a read-only property
\* of the arrow function, in strict (class) code: the call throws TypeError before
\* the operation or _executeSync runs.
DirectCallThrows(op, i, arg, val) ==
    /\ root' = root
    /\ inst' = inst
    /\ hist' = Log(Done(Call(op, i, arg, val), Thrown("TypeError")))
    /\ UNCHANGED <<calls, keep>>

\* set(fullPath, value), up to its first await: the path is parsed and validated
\* and an instance for another database is constructed.
set(i, fullPath, value) ==
    IF ~inst[i].useAsync THEN DirectCallThrows("set", i, fullPath, value)
    ELSE LET parsed == parseFullPath(fullPath) IN
         IF parsed.path # <<>> /\ validatePathThrows(parsed.path)
         THEN /\ root' = root
              /\ inst' = inst
              /\ hist' = Log(Done(Call("set", i, fullPath, value),
                                  ErrorMessage("InvalidPath")))
              /\ UNCHANGED <<calls, keep>>
         ELSE /\ root' = IF TargetOf(i, parsed) # inst[i].dbName
                         THEN AfterInit(root, parsed.dbName) ELSE root
              /\ calls' = Append(calls, Pending("set", i, fullPath, value,
                                                TargetOf(i, parsed), parsed.path))
              /\ hist' = Room
              /\ UNCHANGED <<inst, keep>>

\* set, from the timer of _getDatabase to the call of _saveDatabase: load, quota
\* check, update in memory.
setLoad(n) ==
    \E c \in {calls[n]} :
    /\ c.op = "set" /\ c.pc = "load"
    /\ \E db \in {getDatabase(c.target)} :
       \E quotaCheck \in {checkQuotaBeforeSet(inst[c.i].quota, inst[c.i].folderQuotas,
                                              db, c.path, c.val)} :
       \E valueToStore \in {IF quotaCheck.storeNull THEN Null ELSE c.val} :
       \E updatedDB \in {IF quotaCheck.allowed
                         THEN setValueByPath(db, c.path, valueToStore, inst[c.i].caseSen)
                         ELSE db} :
       \E loaded \in {[c EXCEPT !.loads = CountUp(c.loads), !.cfg = inst[c.i]]} :
          /\ inst' = [inst EXCEPT ![c.i].quotaMessage = quotaCheck.msg]
          /\ root' = root
          /\ IF ~quotaCheck.allowed
             THEN Finish(n, loaded, Rejected)
             ELSE IF updatedDB = TypeError
             THEN Finish(n, loaded, ErrorMessage("TypeError"))
             ELSE /\ calls' = [calls EXCEPT ![n] =
                                 [loaded EXCEPT !.pc = "save", !.db = updatedDB,
                                                !.q = quotaCheck]]
                  /\ hist' = hist
    /\ UNCHANGED keep

\* set, the timer of _saveDatabase: the whole root is read again, the database is
\* replaced by the map held in memory, and the root is written.
setSave(n) ==
    \E c \in {calls[n]} :
    /\ c.op = "set" /\ c.pc = "save"
    /\ root' = saveDatabase(c.target, c.db)
    /\ inst' = inst
    /\ Finish(n, [c EXCEPT !.saves = c.saves + 1],
              SetResult([c.q EXCEPT !.msg = inst[c.i].quotaMessage]))
    /\ UNCHANGED keep

\* setShortcut(shortcutName, targetPath)
setShortcut(i, shortcutName, targetPath) ==
    set(i, shortcutName, Obj(<< <<ShortcutKey, targetPath>> >>))

\* get(fullPath), up to its first await.
get(i, fullPath) ==
    IF ~inst[i].useAsync THEN DirectCallThrows("get", i, fullPath, Undef)
    ELSE LET parsed == parseFullPath(fullPath) IN
         /\ root' = IF TargetOf(i, parsed) # inst[i].dbName
                    THEN AfterInit(root, parsed.dbName) ELSE root
         /\ calls' = Append(calls, Pending("get", i, fullPath, Undef,
                                           TargetOf(i, parsed), parsed.path))
         /\ hist' = Room
         /\ UNCHANGED <<inst, keep>>

\* get, the timer of _getDatabase: the entry at the path is looked up; a shortcut
\* makes the target instance start get(target) over (no record of the paths
\* already followed is kept), anything else is resolved by _getValueByPath.
getLoad(n) ==
    \E c \in {calls[n]} :
    /\ c.op = "get" /\ c.pc = "load"
    /\ inst' = inst
    /\ \E db \in {getDatabase(c.target)} :
       \E directValue \in {GetProp(db, c.path)} :
       \E loaded \in {[c EXCEPT !.loads = CountUp(c.loads)]} :
          IF IsShortcut(directValue)
          THEN \E parsed \in {parseFullPath(GetProp(directValue, ShortcutKey))} :
               \E target \in {IF parsed.dbName # NoDb /\ parsed.dbName # c.target
                              THEN parsed.dbName ELSE c.target} :
                  /\ root' = IF target # c.target THEN AfterInit(root, target) ELSE root
                  /\ calls' = [calls EXCEPT ![n] =
                                 [loaded EXCEPT !.target = target, !.path = parsed.path]]
                  /\ hist' = hist
          ELSE /\ root' = root
               /\ Finish(n, loaded, getValueByPath(db, c.path, inst[c.i].caseSen))
    /\ UNCHANGED keep

\* In direct-call mode every method other than get and set hands its operation to
\* _executeSync, which reads the root, runs the operation only when it is named
\* getOperation or setOperation, and otherwise returns its unassigned result.
executeSync(op, i, arg, val) ==
    /\ root' = root
    /\ inst' = inst
    /\ hist' = Log(Done(Call(op, i, arg, val), Undef))
    /\ UNCHANGED <<calls, keep>>

\* has(fullPath), up to its first await: the operation awaits this.get(fullPath),
\* which parses the path and constructs an instance for another database.
has(i, fullPath) ==
    IF ~inst[i].useAsync THEN executeSync("has", i, fullPath, Undef)
    ELSE LET parsed == parseFullPath(fullPath) IN
         /\ root' = IF TargetOf(i, parsed) # inst[i].dbName
                    THEN AfterInit(root, parsed.dbName) ELSE root
         /\ calls' = Append(calls, Pending("has", i, fullPath, Undef,
                                           TargetOf(i, parsed), parsed.path))
         /\ hist' = Room
         /\ UNCHANGED <<inst, keep>>

\* has, the timer of _getDatabase of the get it awaits: value !== undefined of
\* what get resolves to.
hasLoad(n) ==
    \E c \in {calls[n]} :
    /\ c.op = "has" /\ c.pc = "load"
    /\ inst' = inst
    /\ \E db \in {getDatabase(c.target)} :
       \E directValue \in {GetProp(db, c.path)} :
       \E loaded \in {[c EXCEPT !.loads = CountUp(c.loads)]} :
          IF IsShortcut(directValue)
          THEN \E parsed \in {parseFullPath(GetProp(directValue, ShortcutKey))} :
               \E target \in {IF parsed.dbName # NoDb /\ parsed.dbName # c.target
                              THEN parsed.dbName ELSE c.target} :
                  /\ root' = IF target # c.target THEN AfterInit(root, target) ELSE root
                  /\ calls' = [calls EXCEPT ![n] =
                                 [loaded EXCEPT !.target = target, !.path = parsed.path]]
                  /\ hist' = hist
          ELSE /\ root' = root
               /\ Finish(n, loaded,
                         Bool(getValueByPath(db, c.path, inst[c.i].caseSen) # Undef))
    /\ UNCHANGED keep

\* remove(...operations), up to its first await; operations is the sequence of
\* the pairs <<path, strategy>> of the call.
remove(i, operations) ==
    IF ~inst[i].useAsync THEN executeSync("remove", i, operations, Undef)
    ELSE /\ root' = root
         /\ calls' = Append(calls, Pending("remove", i, operations, Undef,
                                           inst[i].dbName, <<>>))
         /\ hist' = Room
         /\ UNCHANGED <<inst, keep>>

\* remove, the timer of _getDatabase: the pairs are applied in turn to a copy of
\* the map; the pair (null, 'database') deletes the database from the root, saves
\* the root and returns at once; otherwise _saveDatabase is awaited.
removeLoad(n) ==
    \E c \in {calls[n]} :
    /\ c.op = "remove" /\ c.pc = "load"
    /\ inst' = inst
    /\ \E db \in {getDatabase(c.target)} :
       \E st \in {RemoveLoop([db |-> Spread(db), returned |-> FALSE,
                              steps |-> <<Spread(db)>>, warn |-> <<>>], c.arg)} :
       \E loaded \in {[c EXCEPT !.loads = CountUp(c.loads), !.db = st.db,
                                !.steps = st.steps, !.warn = st.warn]} :
          IF st.returned
          THEN /\ root' = SavedRoot([d \in DOMAIN getRoot \ {c.target} |-> getRoot[d]])
               /\ Finish(n, [loaded EXCEPT !.saves = CountUp(loaded.saves)], Null)
          ELSE /\ root' = root
               /\ calls' = [calls EXCEPT ![n] = [loaded EXCEPT !.pc = "save"]]
               /\ hist' = hist
    /\ UNCHANGED keep

\* remove, the timer of _saveDatabase: the root is read again, the map is put in
\* it and the root is saved.
removeSave(n) ==
    \E c \in {calls[n]} :
    /\ c.op = "remove" /\ c.pc = "save"
    /\ inst' = inst
    /\ root' = saveDatabase(c.target, c.db)
    /\ Finish(n, [c EXCEPT !.saves = CountUp(c.saves)], Null)
    /\ UNCHANGED keep

\* removeKey(fullPath), up to its first await.
removeKey(i, fullPath) ==
    IF ~inst[i].useAsync THEN executeSync("removeKey", i, fullPath, Undef)
    ELSE LET parsed == parseFullPath(fullPath) IN
         /\ root' = IF TargetOf(i, parsed) # inst[i].dbName
                    THEN AfterInit(root, parsed.dbName) ELSE root
         /\ calls' = Append(calls, Pending("removeKey", i, fullPath, Undef,
                                           TargetOf(i, parsed), parsed.path))
         /\ hist' = Room
         /\ UNCHANGED <<inst, keep>>

\* removeKey, the timer of _getDatabase: the key is deleted when the map has the
\* whole path as an own key, otherwise the call returns null.
removeKeyLoad(n) ==
    \E c \in {calls[n]} :
    /\ c.op = "removeKey" /\ c.pc = "load"
    /\ inst' = inst
    /\ root' = root
    /\ \E db \in {getDatabase(c.target)} :
       \E loaded \in {[c EXCEPT !.loads = CountUp(c.loads)]} :
          IF HasKey(db, c.path)
          THEN /\ calls' = [calls EXCEPT ![n] =
                              [loaded EXCEPT !.pc = "save", !.db = DeleteProp(db, c.path)]]
               /\ hist' = hist
          ELSE Finish(n, loaded, Null)
    /\ UNCHANGED keep

\* removeKey, the timer of _saveDatabase.
removeKeySave(n) ==
    \E c \in {calls[n]} :
    /\ c.op = "removeKey" /\ c.pc = "save"
    /\ inst' = inst
    /\ root' = saveDatabase(c.target, c.db)
    /\ Finish(n, [c EXCEPT !.saves = CountUp(c.saves)], Null)
    /\ UNCHANGED keep

\* clear(), up to its first await.
clear(i) ==
    IF ~inst[i].useAsync THEN executeSync("clear", i, Undef, Undef)
    ELSE /\ root' = root
         /\ calls' = Append(calls, [Pending("clear", i, Undef, Undef, inst[i].dbName, <<>>)
                                      EXCEPT !.pc = "save", !.db = EmptyObj])
         /\ hist' = Room
         /\ UNCHANGED <<inst, keep>>

\* clear, the timer of _saveDatabase({}).
clearSave(n) ==
    \E c \in {calls[n]} :
    /\ c.op = "clear" /\ c.pc = "save"
    /\ inst' = inst
    /\ root' = saveDatabase(c.target, c.db)
    /\ Finish(n, [c EXCEPT !.saves = CountUp(c.saves)], Null)
    /\ UNCHANGED keep

\* keys(), up to its first await.
keysOf(i) ==
    IF ~inst[i].useAsync THEN executeSync("keys", i, Undef, Undef)
    ELSE /\ root' = root
         /\ calls' = Append(calls, Pending("keys", i, Undef, Undef, inst[i].dbName, <<>>))
         /\ hist' = Room
         /\ UNCHANGED <<inst, keep>>

\* The array of strings Object.keys returns.
KeyList(ks) == [t |-> "keys", ks |-> ks]

\* keys, the timer of _getDatabase: Object.keys(db).
keysLoad(n) ==
    \E c \in {calls[n]} :
    /\ c.op = "keys" /\ c.pc = "load"
    /\ inst' = inst
    /\ root' = root
    /\ \E db \in {getDatabase(c.target)} :
          Finish(n, [c EXCEPT !.loads = CountUp(c.loads)], KeyList(ObjectKeys(db)))
    /\ UNCHANGED keep

\* FastLS.listDatabases(): the keys of the stored root.
listDatabases == DOMAIN root

\* v1 (src/index.js), whose methods run to completion in the step that calls
\* them.  _getDatabase of an instance bound to name: JSON.parse of the stored
\* root, root[this.dbName] || {}.
indexGetDatabase(name) ==
    IF name \in DOMAIN root /\ Truthy(root[name]) THEN root[name] ELSE EmptyObj

\* v1's _saveDatabase(db): the stored root is read again, root[this.dbName] = db,
\* and JSON.stringify of it is written.
indexSaveDatabase(name, db) ==
    LET r == RootPut(root, name, db) IN
    [d \in {x \in DOMAIN r : r[x] # Undef} |-> JsonTree(r[d])]

\* The completed-call record of a v1 method on the instance bound to name.
IndexDone(op, name, arg, val, res) ==
    [op |-> op, i |-> "index", arg |-> arg, val |-> val, pre |-> root,
     cfg |-> [dbName |-> name], post |-> root', res |-> res]

\* An error thrown inside the try block of a v1 method, in place of the map.
IsThrown(db) == db.t \in {"TypeError", "SerializationError"}

\* A v1 method whose try block makes the map db of the instance's database: the
\* map is saved and what _saveRoot returned is returned (null, or the message of
\* the error when localStorage.setItem throws), or the message of the error
\* thrown in the try block is returned.
IndexSavesCatch(op, name, arg, val, db, throws) ==
    /\ root' = IF IsThrown(db) \/ throws THEN root ELSE indexSaveDatabase(name, db)
    /\ hist' = Log([failed |-> IF throws /\ ~IsThrown(db) THEN {"save"} ELSE {}]
                   @@ IndexDone(op, name, arg, val,
                                IF IsThrown(db) THEN ErrorMessage(db.t)
                                ELSE IF throws THEN ErrorMessage("QuotaExceededError")
                                ELSE Null))
    /\ UNCHANGED <<inst, calls, keep>>

\* The same on a backend whose writes succeed.
IndexSaves(op, name, arg, val, db) == IndexSavesCatch(op, name, arg, val, db, FALSE)

\* A v1 method that finds nothing to do and returns null.
IndexReturnsNull(op, name, arg, val) ==
    /\ root' = root
    /\ hist' = Log(IndexDone(op, name, arg, val, Null))
    /\ UNCHANGED <<inst, calls, keep>>

\* db[serializedKey] = this._serializeValue(value), or the error thrown.
PutSerialized(db, key, value) ==
    IF serializeValue(value) = SerializationError THEN SerializationError
    ELSE PutProp(db, key, serializeValue(value))

\* v1 set(key, value, path), the write of the backend failing or not.
indexSetCatch(name, key, value, path, throws) ==
    LET db == indexGetDatabase(name)
        existingValue == IF Truthy(GetProp(db, key))
                         THEN deserializeValue(GetProp(db, key)) ELSE EmptyObj
        updatedValue == indexSetValueByPath(existingValue, path, value)
    IN  IndexSavesCatch("set", name, <<key, path>>, value,
                        IF Truthy(path)
                        THEN (IF updatedValue = TypeError THEN TypeError
                              ELSE PutSerialized(db, key, updatedValue))
                        ELSE PutSerialized(db, key, value),
                        throws)

\* v1 set(key, value, path)
indexSet(name, key, value, path) == indexSetCatch(name, key, value, path, FALSE)

\* v1 removeKey(key)
indexRemoveKey(name, key) ==
    LET db == indexGetDatabase(name) IN
    IF GetProp(db, key) # Undef
    THEN IndexSaves("removeKey", name, key, Undef, DeleteProp(db, key))
    ELSE IndexReturnsNull("removeKey", name, key, Undef)

\* removePath(key, path)
removePath(name, key, path) ==
    LET db == indexGetDatabase(name)
        updatedValue == deleteValueByPath(deserializeValue(GetProp(db, key)), path)
    IN  IF GetProp(db, key) # Undef
        THEN IndexSaves("removePath", name, <<key, path>>, Undef,
                        IF updatedValue = TypeError THEN TypeError
                        ELSE PutProp(db, key, serializeValue(updatedValue)))
        ELSE IndexReturnsNull("removePath", name, <<key, path>>, Undef)

\* What setMultiple would save if it saved the database after each entry.
RECURSIVE SetEachSaving(_, _)
SetEachSaving(db, entries) ==
    IF entries = <<>> THEN db
    ELSE IF PutSerialized(db, Head(entries)[1], Head(entries)[2]) = SerializationError
    THEN db
    ELSE SetEachSaving(PutSerialized(db, Head(entries)[1], Head(entries)[2]), Tail(entries))

\* The loop of setMultiple over the entries: the map, or the error thrown at the
\* first value that does not serialize.
RECURSIVE SetEach(_, _)
SetEach(db, entries) ==
    IF entries = <<>> THEN db
    ELSE IF PutSerialized(db, Head(entries)[1], Head(entries)[2]) = SerializationError
    THEN SerializationError
    ELSE SetEach(PutSerialized(db, Head(entries)[1], Head(entries)[2]), Tail(entries))

\* setMultiple(entries), the write of the backend failing or not.
setMultipleCatch(name, entries, throws) ==
    IndexSavesCatch("setMultiple", name, entries, Undef,
                    SetEach(indexGetDatabase(name), entries), throws)

\* setMultiple(entries)
setMultiple(name, entries) == setMultipleCatch(name, entries, FALSE)

\* The loop of removeMultiple over keys.
RECURSIVE DeleteEach(_, _)
DeleteEach(db, keys) ==
    IF keys = <<>> THEN db
    ELSE DeleteEach(IF GetProp(db, Head(keys)) # Undef THEN DeleteProp(db, Head(keys)) ELSE db,
                    Tail(keys))

\* removeMultiple(keys)
removeMultiple(name, keys) ==
    IndexSaves("removeMultiple", name, keys, Undef, DeleteEach(indexGetDatabase(name), keys))

\* v1 clear()
indexClear(name) == IndexSaves("clear", name, Undef, Undef, EmptyObj)

\* What import would save if it stored the data in place of the map.
importReplacing(name, data) ==
    IndexSaves("import", name, data, Undef, FromEntries(Entries(data), EmptyObj))

\* import(data): Object.assign(db, data)
import(name, data) ==
    IndexSaves("import", name, data, Undef, FromEntries(Entries(data), indexGetDatabase(name)))

\* export(): the map _getDatabase returns.
export(name) ==
    /\ root' = root
    /\ hist' = Log(IndexDone("export", name, Undef, Undef, indexGetDatabase(name)))
    /\ UNCHANGED <<inst, calls, keep>>

\* The record of a quota method, which completes in the step that calls it.
QuotaCall(op, i, arg, val) ==
    Done([Call(op, i, arg, val) EXCEPT !.cfg = inst'[i]], Null)

\* setQuota(bytes)
setQuota(i, bytes) ==
    /\ inst' = [inst EXCEPT ![i].quota = Num(bytes), ![i].quotaMessage = "null"]
    /\ root' = root
    /\ hist' = Log(QuotaCall("setQuota", i, Null, Num(bytes)))
    /\ UNCHANGED <<calls, keep>>

\* removeQuota()
removeQuota(i) ==
    /\ inst' = [inst EXCEPT ![i].quota = Null, ![i].quotaMessage = "null"]
    /\ root' = root
    /\ hist' = Log(QuotaCall("removeQuota", i, Null, Null))
    /\ UNCHANGED <<calls, keep>>

\* setFolderQuota(folderPath, bytes)
setFolderQuota(i, folderPath, bytes) ==
    /\ inst' = [inst EXCEPT
                  ![i].folderQuotas = MapSet(@, normalizePath(folderPath), bytes),
                  ![i].quotaMessage = "null"]
    /\ root' = root
    /\ hist' = Log(QuotaCall("setFolderQuota", i, folderPath, Num(bytes)))
    /\ UNCHANGED <<calls, keep>>

\* removeFolderQuota(folderPath)
removeFolderQuota(i, folderPath) ==
    /\ inst' = [inst EXCEPT
                  ![i].folderQuotas = MapDelete(@, normalizePath(folderPath)),
                  ![i].quotaMessage = "null"]
    /\ root' = root
    /\ hist' = Log(QuotaCall("removeFolderQuota", i, folderPath, Null))
    /\ UNCHANGED <<calls, keep>>

\* constructor(databaseName, gzipped = false, caseSen, useAsync) on localStorage.
NewInstance(databaseName, caseSen, useAsync) ==
    [dbName |-> databaseName, caseSen |-> caseSen, useAsync |-> useAsync,
     quota |-> Null, folderQuotas |-> <<>>, quotaMessage |-> "null"]

\* new FastLS(databaseName, false, caseSen, useAsync) of v2 on the localStorage
\* backend, held by the page as instance i.
constructor(i, databaseName, caseSen, useAsync) ==
    /\ i \notin DOMAIN inst
    /\ inst' = (i :> NewInstance(databaseName, caseSen, useAsync)) @@ inst
    /\ root' = AfterInit(root, databaseName)
    /\ hist' = Log([op |-> "new", i |-> i, arg |-> databaseName, val |-> Undef,
                    pre |-> root, cfg |-> NewInstance(databaseName, caseSen, useAsync),
                    post |-> root', res |-> Undef])
    /\ UNCHANGED <<calls, keep>>

\* The stored document after v1's constructor ran on document doc: a missing (or
\* falsy) database is created empty and the root is saved with JSON.stringify.
indexAfterInit(doc, name) ==
    IF name \in DOMAIN doc /\ Truthy(doc[name]) THEN doc
    ELSE [d \in DOMAIN doc \cup {name} |-> IF d = name THEN EmptyObj ELSE JsonTree(doc[d])]

\* new FastLS(databaseName) of v1.
indexConstructor(databaseName) ==
    /\ root' = indexAfterInit(root, databaseName)
    /\ hist' = Log(IndexDone("new", databaseName, databaseName, Undef, Undef))
    /\ UNCHANGED <<inst, calls, keep>>

\* The record of an application of a path function to the tree held under name:
\* pre holds the tree it was given, post the tree it returned.
AppliedTo(op, i, name, path, value, caseSen, res, tree) ==
    [op |-> op, i |-> i, arg |-> path, val |-> value, pre |-> root,
     cfg |-> [dbName |-> name, caseSen |-> caseSen],
     post |-> [root EXCEPT ![name] = tree], res |-> res]

\* tree = _setValueByPath(tree, path, value) of v2 on the tree held under name; a
\* TypeError leaves the tree as it was.
setAt(name, path, value, caseSen) ==
    \E t \in {setValueByPath(root[name], path.s, value, caseSen)} :
       /\ root' = IF t = TypeError THEN root ELSE [root EXCEPT ![name] = t]
       /\ hist' = Log(AppliedTo("setAt", "v2", name, path, value, caseSen,
                                IF t = TypeError THEN Thrown("TypeError") ELSE Null,
                                IF t = TypeError THEN root[name] ELSE t))
       /\ UNCHANGED <<inst, calls, keep>>

\* _getValueByPath(tree, path) of v2 on the tree held under name.
getAt(name, path, caseSen) ==
    /\ root' = root
    /\ hist' = Log(AppliedTo("getAt", "v2", name, path, Undef, caseSen,
                             getValueByPath(root[name], path.s, caseSen), root[name]))
    /\ UNCHANGED <<inst, calls, keep>>

\* tree = _setValueByPath(tree, path, value) of v1.
indexSetAt(name, path, value) ==
    \E t \in {indexSetValueByPath(root[name], path, value)} :
       /\ root' = IF t = TypeError THEN root ELSE [root EXCEPT ![name] = t]
       /\ hist' = Log(AppliedTo("setAt", "v1", name, path, value, TRUE,
                                IF t = TypeError THEN Thrown("TypeError") ELSE Null,
                                IF t = TypeError THEN root[name] ELSE t))
       /\ UNCHANGED <<inst, calls, keep>>

\* _getValueByPath(tree, path) of v1.
indexGetAt(name, path) ==
    /\ root' = root
    /\ hist' = Log(AppliedTo("getAt", "v1", name, path, Undef, TRUE,
                             indexGetValueByPath(root[name], path), root[name]))
    /\ UNCHANGED <<inst, calls, keep>>

\* tree = _deleteValueByPath(tree, path) of v1; a TypeError leaves the tree as it
\* was.
indexDeleteAt(name, path) ==
    \E t \in {deleteValueByPath(root[name], path)} :
       /\ root' = IF t = TypeError THEN root ELSE [root EXCEPT ![name] = t]
       /\ hist' = Log(AppliedTo("deleteAt", "v1", name, path, Undef, TRUE,
                                IF t = TypeError THEN Thrown("TypeError") ELSE Null,
                                IF t = TypeError THEN root[name] ELSE t))
       /\ UNCHANGED <<inst, calls, keep>>

\* v1 get(key, path): undefined for a key that is not stored, otherwise
\* _getValueByPath of the deserialized value.
indexGet(name, key, path) ==
    LET db == indexGetDatabase(name)
        value == GetProp(db, key)
    IN  /\ root' = root
        /\ hist' = Log(IndexDone("get", name, <<key, path>>, Undef,
                                 IF value = Undef THEN Undef
                                 ELSE indexGetValueByPath(deserializeValue(value), path)))
        /\ UNCHANGED <<inst, calls, keep>>

\* _checkQuotaBeforeSet(db, path, value) of instance i on the flat map stored for
\* its database: the result, and the quotaMessage it leaves.
checkBeforeSet(i, path, value) ==
    \E quotaCheck \in {checkQuotaBeforeSet(inst[i].quota, inst[i].folderQuotas,
                                           getDatabase(inst[i].dbName), path, value)} :
       /\ inst' = [inst EXCEPT ![i].quotaMessage = quotaCheck.msg]
       /\ root' = root
       /\ hist' = Log([op |-> "checkQuotaBeforeSet", i |-> i, arg |-> path, val |-> value,
                       pre |-> root, cfg |-> inst[i], post |-> root, res |-> quotaCheck])
       /\ UNCHANGED <<calls, keep>>

(***************************************************************************)
(* The storage calls when the backend fails                                *)
(***************************************************************************)
\* _getRoot: when localStorage.getItem throws the catch block returns {}, and
\* when the stored text does not parse _deserializeData returns {}.
getRootCatch(throws) == IF throws THEN <<>> ELSE getRoot

\* _saveRoot(r): when localStorage.setItem throws nothing is written and the
\* message of the error is returned, otherwise null.
saveRootCatch(r, throws) ==
    [doc |-> IF throws THEN root ELSE SavedRoot(r),
     res |-> IF throws THEN ErrorMessage("QuotaExceededError") ELSE Null]

\* _getDatabase over _getRoot: root[this.dbName] || {}
getDatabaseCatch(name, throws) ==
    IF Truthy(RootGet(getRootCatch(throws), name))
    THEN RootGet(getRootCatch(throws), name) ELSE EmptyObj

\* _saveDatabase(db) over _getRoot and _saveRoot: the document and the result.
saveDatabaseCatch(name, db, readThrows, writeThrows) ==
    saveRootCatch(RootPut(getRootCatch(readThrows), name, db), writeThrows)

\* The backend calls that failed during a call.
FailedCalls(c) == IF "failed" \in DOMAIN c THEN c.failed ELSE {}

Mark(c, what) == [failed |-> FailedCalls(c) \cup what] @@ c

\* The call in flight at position n completes with result res; its record keeps
\* the backend calls that failed.
FinishMarked(n, c, res) ==
    /\ calls' = SubSeq(calls, 1, n - 1) \o SubSeq(calls, n + 1, Len(calls))
    /\ hist' = Log([failed |-> FailedCalls(c)] @@ Done(c, res))

\* set, the timer of _getDatabase, the read of the root failing or not.
setLoadCatch(n, throws) ==
    \E c \in {calls[n]} :
    /\ c.op = "set" /\ c.pc = "load"
    /\ \E db \in {getDatabaseCatch(c.target, throws)} :
       \E quotaCheck \in {checkQuotaBeforeSet(inst[c.i].quota, inst[c.i].folderQuotas,
                                              db, c.path, c.val)} :
       \E valueToStore \in {IF quotaCheck.storeNull THEN Null ELSE c.val} :
       \E updatedDB \in {IF quotaCheck.allowed
                         THEN setValueByPath(db, c.path, valueToStore, inst[c.i].caseSen)
                         ELSE db} :
       \E loaded \in {Mark([c EXCEPT !.loads = CountUp(c.loads), !.cfg = inst[c.i]],
                           IF throws THEN {"load"} ELSE {})} :
          /\ inst' = [inst EXCEPT ![c.i].quotaMessage = quotaCheck.msg]
          /\ root' = root
          /\ IF ~quotaCheck.allowed
             THEN FinishMarked(n, loaded, Rejected)
             ELSE IF updatedDB = TypeError
             THEN FinishMarked(n, loaded, ErrorMessage("TypeError"))
             ELSE /\ calls' = [calls EXCEPT ![n] =
                                 [loaded EXCEPT !.pc = "save", !.db = updatedDB,
                                                !.q = quotaCheck]]
                  /\ hist' = hist
    /\ UNCHANGED keep

\* The backend calls of _saveDatabase that failed.
SaveMarks(readThrows, writeThrows) ==
    (IF readThrows THEN {"reload"} ELSE {}) \cup (IF writeThrows THEN {"save"} ELSE {})

\* set, the timer of _saveDatabase: saveResult is what _saveRoot returned.
setSaveCatch(n, readThrows, writeThrows) ==
    \E c \in {calls[n]} :
    /\ c.op = "set" /\ c.pc = "save"
    /\ \E saved \in {saveDatabaseCatch(c.target, c.db, readThrows, writeThrows)} :
          /\ root' = saved.doc
          /\ inst' = inst
          /\ FinishMarked(n, Mark([c EXCEPT !.saves = c.saves + 1],
                                  SaveMarks(readThrows, writeThrows)),
                          [SetResult([c.q EXCEPT !.msg = inst[c.i].quotaMessage])
                             EXCEPT !.saveResult = saved.res])
    /\ UNCHANGED keep

\* remove, the timer of _getDatabase: the pair (null, 'database') reads the root
\* again, deletes the database, calls _saveRoot and returns null whatever
\* _saveRoot returned.
removeLoadCatch(n, throws, readThrows, writeThrows) ==
    \E c \in {calls[n]} :
    /\ c.op = "remove" /\ c.pc = "load"
    /\ inst' = inst
    /\ \E db \in {getDatabaseCatch(c.target, throws)} :
       \E st \in {RemoveLoop([db |-> Spread(db), returned |-> FALSE,
                              steps |-> <<Spread(db)>>, warn |-> <<>>], c.arg)} :
       \E loaded \in {Mark([c EXCEPT !.loads = CountUp(c.loads), !.db = st.db,
                                     !.steps = st.steps, !.warn = st.warn],
                           IF throws THEN {"load"} ELSE {})} :
          IF st.returned
          THEN \E r \in {getRootCatch(readThrows)} :
               \E saved \in {saveRootCatch([d \in DOMAIN r \ {c.target} |-> r[d]],
                                           writeThrows)} :
                  /\ root' = saved.doc
                  /\ FinishMarked(n, Mark([loaded EXCEPT !.saves = CountUp(loaded.saves)],
                                          SaveMarks(readThrows, writeThrows)), Null)
          ELSE /\ ~readThrows /\ ~writeThrows
               /\ root' = root
               /\ calls' = [calls EXCEPT ![n] = [loaded EXCEPT !.pc = "save"]]
               /\ hist' = hist
    /\ UNCHANGED keep

\* remove, the timer of _saveDatabase: the call returns what _saveRoot returned.
removeSaveCatch(n, readThrows, writeThrows) ==
    \E c \in {calls[n]} :
    /\ c.op = "remove" /\ c.pc = "save"
    /\ inst' = inst
    /\ \E saved \in {saveDatabaseCatch(c.target, c.db, readThrows, writeThrows)} :
          /\ root' = saved.doc
          /\ FinishMarked(n, Mark([c EXCEPT !.saves = CountUp(c.saves)],
                                  SaveMarks(readThrows, writeThrows)), saved.res)
    /\ UNCHANGED keep

\* removeKey, the timer of _getDatabase, the read of the root failing or not.
removeKeyLoadCatch(n, throws) ==
    \E c \in {calls[n]} :
    /\ c.op = "removeKey" /\ c.pc = "load"
    /\ inst' = inst
    /\ root' = root
    /\ \E db \in {getDatabaseCatch(c.target, throws)} :
       \E loaded \in {Mark([c EXCEPT !.loads = CountUp(c.loads)],
                           IF throws THEN {"load"} ELSE {})} :
          IF HasKey(db, c.path)
          THEN /\ calls' = [calls EXCEPT ![n] =
                              [loaded EXCEPT !.pc = "save", !.db = DeleteProp(db, c.path)]]
               /\ hist' = hist
          ELSE FinishMarked(n, loaded, Null)
    /\ UNCHANGED keep

\* removeKey, the timer of _saveDatabase: the call returns what _saveRoot returned.
removeKeySaveCatch(n, readThrows, writeThrows) ==
    \E c \in {calls[n]} :
    /\ c.op = "removeKey" /\ c.pc = "save"
    /\ inst' = inst
    /\ \E saved \in {saveDatabaseCatch(c.target, c.db, readThrows, writeThrows)} :
          /\ root' = saved.doc
          /\ FinishMarked(n, Mark([c EXCEPT !.saves = CountUp(c.saves)],
                                  SaveMarks(readThrows, writeThrows)), saved.res)
    /\ UNCHANGED keep

(***************************************************************************)
(* Specification Spec: two instances on database M, one in direct-call mode *)
(* and one in promise mode; the page makes one call at a time.             *)
(***************************************************************************)
S1(a) == Str(<<a>>)

M == <<"M">>

MaxOps == 2

RawPaths ==
    { Str(<<"a">>),
      Str(<<"a", ".", "b">>),
      Str(<<"d", "/", "q", ".", "x">>),
      Str(<<"a", ":", "b">>),
      Str(<<"a", BackSlash, "b">>),
      Str(<<".", ".">>) }

Values == { Num(1), Null, Obj(<< <<<<"k">>, S1("s")>> >>) }

Init ==
    /\ inst = [i \in {"direct", "promise"} |-> NewInstance(M, TRUE, i = "promise")]
    /\ root = AfterInit(AfterInit(<<>>, M), M)
    /\ calls = <<>>
    /\ hist = <<>>
    /\ keep = MaxOps

\* The page starts a call when none is in flight.
Idle(maxOps) == calls = <<>> /\ Len(hist) < maxOps

Next ==
    \/ \E i \in DOMAIN inst, p \in RawPaths, v \in Values : Idle(MaxOps) /\ set(i, p, v)
    \/ \E i \in DOMAIN inst, p \in RawPaths : Idle(MaxOps) /\ get(i, p)
    \/ \E n \in 1..Len(calls) : setLoad(n)
    \/ \E n \in 1..Len(calls) : setSave(n)
    \/ \E n \in 1..Len(calls) : getLoad(n)

Spec == Init /\ [][Next]_vars

(***************************************************************************)
(* Specification SpecSC: shortcuts.  Three instances on database M (direct *)
(* call, promise, promise and case-insensitive); one call at a time; hist  *)
(* retains the last completed call.                                        *)
(***************************************************************************)
ShortcutNames == { Str(<<"a">>), Str(<<"b">>) }

ShortcutTargets == { Str(<<"a">>), Str(<<"b">>), Str(<<"c">>) }

FinalKey == Str(<<"c">>)

FinalValue == Num(42)

ReadPaths == { Str(<<"a">>), Str(<<"b">>), Str(<<"A">>) }

InitSC ==
    /\ inst = [i \in {"direct", "promise", "promiseCI"} |->
                 NewInstance(M, i # "promiseCI", i # "direct")]
    /\ root = AfterInit(<<>>, M)
    /\ calls = <<>>
    /\ hist = <<>>
    /\ keep = 1

\* The timer callbacks of the calls in flight.
Timers ==
    \/ \E n \in 1..Len(calls) : setLoad(n)
    \/ \E n \in 1..Len(calls) : setSave(n)
    \/ \E n \in 1..Len(calls) : getLoad(n)

NextSC ==
    \/ \E i \in DOMAIN inst, s \in ShortcutNames, t \in ShortcutTargets :
          calls = <<>> /\ setShortcut(i, s, t)
    \/ \E i \in DOMAIN inst : calls = <<>> /\ set(i, FinalKey, FinalValue)
    \/ \E i \in DOMAIN inst, p \in ReadPaths : calls = <<>> /\ get(i, p)
    \/ Timers

SpecSC == InitSC /\ [][NextSC]_vars

\* Timers that are due fire: the event loop runs every callback it was given.
SpecSCFair == SpecSC /\ WF_vars(Timers)

(***************************************************************************)
(* Specification SpecQuota: quotas.  Two instances on database M (direct   *)
(* call, promise) configure a global quota and a quota on folder f and     *)
(* write keys f and g, one call at a time; hist retains the last           *)
(* completed call.                                                         *)
(***************************************************************************)
QuotaKeys == { Str(<<"f">>), Str(<<"g">>) }

QuotaFolder == Str(<<"f">>)

\* Serialized sizes 1, 5 and 4.
QuotaValues == { Num(1), Num(12345), Null }

GlobalBudgets == {3, 8}

FolderBudgets == {1, 4}

InitQuota ==
    /\ inst = [i \in {"direct", "promise"} |-> NewInstance(M, TRUE, i = "promise")]
    /\ root = AfterInit(<<>>, M)
    /\ calls = <<>>
    /\ hist = <<>>
    /\ keep = 1

NextQuota ==
    \/ \E i \in DOMAIN inst, b \in GlobalBudgets : calls = <<>> /\ setQuota(i, b)
    \/ \E i \in DOMAIN inst : calls = <<>> /\ removeQuota(i)
    \/ \E i \in DOMAIN inst, b \in FolderBudgets :
          calls = <<>> /\ setFolderQuota(i, QuotaFolder, b)
    \/ \E i \in DOMAIN inst : calls = <<>> /\ removeFolderQuota(i, QuotaFolder)
    \/ \E i \in DOMAIN inst, k \in QuotaKeys, v \in QuotaValues :
          calls = <<>> /\ set(i, k, v)
    \/ \E n \in 1..Len(calls) : setLoad(n)
    \/ \E n \in 1..Len(calls) : setSave(n)

SpecQuota == InitQuota /\ [][NextQuota]_vars

(***************************************************************************)
(* Specification SpecRemove: database M holds a flat map over the keys a,   *)
(* a\b, a\b\c, a\d and ab, next to a database D; the page calls remove with  *)
(* one or two pairs, one call at a time, on an instance in direct-call mode *)
(* or on one in promise mode.                                              *)
(***************************************************************************)
D == <<"D">>

FlatEntries ==
    << <<<<"a">>, Num(1)>>,
       <<<<"a", BackSlash, "b">>, Num(2)>>,
       <<<<"a", BackSlash, "b", BackSlash, "c">>, Num(3)>>,
       <<<<"a", BackSlash, "d">>, Num(4)>>,
       <<<<"a", "b">>, Num(5)>> >>

FlatMaps ==
    { Obj(SelectSeq(FlatEntries, LAMBDA e : e[1] \in ks)) :
        ks \in SUBSET { FlatEntries[n][1] : n \in 1..Len(FlatEntries) } }

OtherMap == Obj(<< <<<<"a">>, Num(7)>>, <<<<"a", BackSlash, "b">>, Num(8)>> >>)

RemovePaths == { Str(<<"a">>), Str(<<"a", "/", "b">>), Null }

RemoveTokens ==
    { "folder", "root", "structure", "nestedFolders", "database", "databaseKeys", "purge" }

RemovePairs == RemovePaths \X RemoveTokens

RemoveBatches == { <<p>> : p \in RemovePairs } \cup { <<p, q>> : p, q \in RemovePairs }

InitRemove ==
    /\ inst = [i \in {"direct", "promise"} |-> NewInstance(M, TRUE, i = "promise")]
    /\ \E db \in FlatMaps : root = SavedRoot([d \in {M, D} |-> IF d = M THEN db ELSE OtherMap])
    /\ calls = <<>>
    /\ hist = <<>>
    /\ keep = 1

NextRemove ==
    \/ \E i \in DOMAIN inst, operations \in RemoveBatches :
          calls = <<>> /\ hist = <<>> /\ remove(i, operations)
    \/ \E n \in 1..Len(calls) : removeLoad(n)
    \/ \E n \in 1..Len(calls) : removeSave(n)

SpecRemove == InitRemove /\ [][NextRemove]_vars

(***************************************************************************)
(* Specification SpecKey: databases M and D hold whole keys and keys whose  *)
(* value is an object; instances in direct-call mode and in promise mode    *)
(* on M and an instance in promise mode on D call removeKey and get, one    *)
(* call at a time.                                                         *)
(***************************************************************************)
Team(lead, size) == Obj(<< <<<<"l", "e", "a", "d">>, S1(lead)>>, <<<<"s", "i", "z", "e">>, Num(size)>> >>)

KeyMapM ==
    Obj(<< <<<<"k">>, Num(1)>>,
           <<<<"t">>, Team("x", 2)>>,
           <<<<"c", BackSlash, "t">>, Team("z", 5)>> >>)

KeyMapD == Obj(<< <<<<"k">>, Num(3)>>, <<<<"t">>, Team("y", 4)>> >>)

KeyPaths ==
    { Str(<<"k">>),
      Str(<<"t", ".", "l", "e", "a", "d">>),
      Str(<<"c", "/", "t", ".", "l", "e", "a", "d">>),
      Str(<<"D", ":", "k">>),
      Str(<<"D", ":", "t", ".", "l", "e", "a", "d">>) }

InitKey ==
    /\ inst = [i \in {"direct", "promise", "other"} |->
                 NewInstance(IF i = "other" THEN D ELSE M, TRUE, i # "direct")]
    /\ root = SavedRoot([d \in {M, D} |-> IF d = M THEN KeyMapM ELSE KeyMapD])
    /\ calls = <<>>
    /\ hist = <<>>
    /\ keep = MaxOps

NextKey ==
    \/ \E i \in DOMAIN inst, p \in KeyPaths : Idle(MaxOps) /\ removeKey(i, p)
    \/ \E i \in DOMAIN inst, p \in KeyPaths : Idle(MaxOps) /\ get(i, p)
    \/ \E n \in 1..Len(calls) : removeKeyLoad(n)
    \/ \E n \in 1..Len(calls) : removeKeySave(n)
    \/ \E n \in 1..Len(calls) : getLoad(n)

SpecKey == InitKey /\ [][NextKey]_vars

(***************************************************************************)
(* Specification SpecIso: databases A and B in one stored root.  Instances  *)
(* of v2 (direct-call mode on A, promise mode on A and on B) and of v1 (on *)
(* A and on B) make mutating calls; up to two promise-mode calls are in     *)
(* flight at a time, and their timers fire in any order.                   *)
(***************************************************************************)
DbA == <<"A">>

DbB == <<"B">>

\* A flat map with a number, a JSON string as v1 stores it, and a function as
\* v2 stores it (the reviver rewrites its wrapper whenever the root is loaded).
IsoMap(n) ==
    Obj(<< <<<<"k">>, Num(n)>>,
           <<<<"t">>, Text(Obj(<< <<<<"p">>, Num(n)>>, <<<<"q">>, Num(n + 1)>> >>))>>,
           <<<<"f">>, Obj(<< <<FunctionKey, S1("x")>> >>)>> >>)

IsoPaths == { Str(<<"k">>), Str(<<"B", ":", "k">>) }

IsoBatches ==
    { << <<Str(<<"k">>), "folder">> >>,
      << <<Null, "databaseKeys">> >>,
      << <<Null, "database">> >> }

IsoEntries == << <<<<"k">>, Num(7)>>, <<<<"j">>, Num(8)>> >>

IsoData == Obj(<< <<<<"k">>, Text(Num(9))>> >>)

InitIso ==
    /\ inst = [i \in {"directA", "promiseA", "promiseB"} |->
                 NewInstance(IF i = "promiseB" THEN DbB ELSE DbA, TRUE, i # "directA")]
    /\ root = SavedRoot([d \in {DbA, DbB} |-> IF d = DbA THEN IsoMap(1) ELSE IsoMap(3)])
    /\ calls = <<>>
    /\ hist = <<>>
    /\ keep = MaxOps

\* A call may start: fewer than MaxOps calls were made, at most one is in flight.
MayCall == Len(hist) + Len(calls) < MaxOps /\ Len(calls) < 2

NextIso ==
    \/ \E i \in DOMAIN inst, p \in IsoPaths : MayCall /\ set(i, p, Num(5))
    \/ \E i \in DOMAIN inst, ops \in IsoBatches : MayCall /\ remove(i, ops)
    \/ \E i \in DOMAIN inst, p \in IsoPaths : MayCall /\ removeKey(i, p)
    \/ \E i \in DOMAIN inst : MayCall /\ clear(i)
    \/ \E n \in 1..Len(calls) : setLoad(n)
    \/ \E n \in 1..Len(calls) : setSave(n)
    \/ \E n \in 1..Len(calls) : removeLoad(n)
    \/ \E n \in 1..Len(calls) : removeSave(n)
    \/ \E n \in 1..Len(calls) : removeKeyLoad(n)
    \/ \E n \in 1..Len(calls) : removeKeySave(n)
    \/ \E n \in 1..Len(calls) : clearSave(n)
    \/ \E d \in {DbA, DbB}, path \in {Str(<<>>), Str(<<"p">>)} :
          MayCall /\ indexSet(d, <<"k">>, Num(6), path)
    \/ \E d \in {DbA, DbB} : MayCall /\ indexRemoveKey(d, <<"k">>)
    \/ \E d \in {DbA, DbB} : MayCall /\ removePath(d, <<"t">>, Str(<<"p">>))
    \/ \E d \in {DbA, DbB} : MayCall /\ setMultiple(d, IsoEntries)
    \/ \E d \in {DbA, DbB} : MayCall /\ removeMultiple(d, <<<<"k">>, <<"j">>>>)
    \/ \E d \in {DbA, DbB} : MayCall /\ indexClear(d)
    \/ \E d \in {DbA, DbB} : MayCall /\ import(d, IsoData)

SpecIso == InitIso /\ [][NextIso]_vars

(***************************************************************************)
(* Specification SpecRace: an instance in promise mode on database M; the   *)
(* page calls set once for each of two keys, without waiting for the first *)
(* call before it makes the second, and the timers fire in any order.      *)
(***************************************************************************)
RaceKeys == { Str(<<"f">>), Str(<<"g">>) }

RaceValues == { Num(1), S1("v") }

RaceMaps == { EmptyObj, Obj(<< <<<<"e">>, Num(0)>> >>), Obj(<< <<<<"f">>, Num(9)>> >>) }

InitRace ==
    /\ inst = [i \in {"promise"} |-> NewInstance(M, TRUE, TRUE)]
    /\ \E db \in RaceMaps : root = SavedRoot([d \in {M} |-> db])
    /\ calls = <<>>
    /\ hist = <<>>
    /\ keep = 2

\* No call for path p was made yet.
NotCalled(p) ==
    /\ \A n \in 1..Len(calls) : calls[n].arg # p
    /\ \A n \in 1..Len(hist) : hist[n].arg # p

NextRace ==
    \/ \E p \in RaceKeys, v \in RaceValues : NotCalled(p) /\ set("promise", p, v)
    \/ \E n \in 1..Len(calls) : setLoad(n)
    \/ \E n \in 1..Len(calls) : setSave(n)

SpecRace == InitRace /\ [][NextRace]_vars

(***************************************************************************)
(* Specification SpecFail: databases M and D in one stored root; a          *)
(* promise-mode instance on M calls set, remove and removeKey, one call at  *)
(* a time, while any read (getItem, or the parse of its text) and any write *)
(* (setItem) of the backend may fail.                                      *)
(***************************************************************************)
FailPaths == { Str(<<"f">>), Str(<<"g">>) }

FailBatches == { << <<Null, "database">> >>, << <<Str(<<"f">>), "folder">> >> }

InitFail ==
    /\ inst = [i \in {"promise"} |-> NewInstance(M, TRUE, TRUE)]
    /\ root = SavedRoot([d \in {M, D} |->
                           IF d = M THEN Obj(<< <<<<"f">>, Num(9)>>, <<<<"h">>, Num(3)>> >>)
                           ELSE OtherMap])
    /\ calls = <<>>
    /\ hist = <<>>
    /\ keep = MaxOps

NextFail ==
    \/ \E p \in FailPaths, v \in {Num(1)} : Idle(MaxOps) /\ set("promise", p, v)
    \/ \E operations \in FailBatches : Idle(MaxOps) /\ remove("promise", operations)
    \/ \E p \in FailPaths : Idle(MaxOps) /\ removeKey("promise", p)
    \/ \E n \in 1..Len(calls), throws \in BOOLEAN : setLoadCatch(n, throws)
    \/ \E n \in 1..Len(calls), readThrows, writeThrows \in BOOLEAN :
          setSaveCatch(n, readThrows, writeThrows)
    \/ \E n \in 1..Len(calls), throws, readThrows, writeThrows \in BOOLEAN :
          removeLoadCatch(n, throws, readThrows, writeThrows)
    \/ \E n \in 1..Len(calls), readThrows, writeThrows \in BOOLEAN :
          removeSaveCatch(n, readThrows, writeThrows)
    \/ \E n \in 1..Len(calls), throws \in BOOLEAN : removeKeyLoadCatch(n, throws)
    \/ \E n \in 1..Len(calls), readThrows, writeThrows \in BOOLEAN :
          removeKeySaveCatch(n, readThrows, writeThrows)

SpecFail == InitFail /\ [][NextFail]_vars

(***************************************************************************)
(* Specification SpecCase: case-insensitive instances (caseSen = false) on  *)
(* database M, one in direct-call mode and one in promise mode; M holds     *)
(* what an earlier set of the promise-mode instance created under the        *)
(* casing U, U.N or T[0]; the page calls set, get and keys, one call at a    *)
(* time.                                                                   *)
(***************************************************************************)
CasePaths ==
    { Str(<<"U">>), Str(<<"u">>),
      Str(<<"U", ".", "N">>), Str(<<"u", ".", "n">>),
      Str(<<"T", "[", "0", "]">>), Str(<<"t", "[", "0", "]">>) }

CaseMaps ==
    { EmptyObj,
      Obj(<< <<<<"U">>, Num(1)>> >>),
      Obj(<< <<<<"U">>, Obj(<< <<<<"N">>, Num(1)>> >>)>> >>),
      Obj(<< <<<<"T">>, Arr(<<Num(1)>>)>> >>) }

InitCase ==
    /\ inst = [i \in {"directCI", "promiseCI"} |-> NewInstance(M, FALSE, i = "promiseCI")]
    /\ \E db \in CaseMaps : root = SavedRoot([d \in {M} |-> db])
    /\ calls = <<>>
    /\ hist = <<>>
    /\ keep = MaxOps

NextCase ==
    \/ \E i \in DOMAIN inst, p \in CasePaths : Idle(MaxOps) /\ set(i, p, Num(2))
    \/ \E i \in DOMAIN inst, p \in CasePaths : Idle(MaxOps) /\ get(i, p)
    \/ \E i \in DOMAIN inst : Idle(MaxOps) /\ keysOf(i)
    \/ \E n \in 1..Len(calls) : setLoad(n)
    \/ \E n \in 1..Len(calls) : setSave(n)
    \/ \E n \in 1..Len(calls) : getLoad(n)
    \/ \E n \in 1..Len(calls) : keysLoad(n)

SpecCase == InitCase /\ [][NextCase]_vars

(***************************************************************************)
(* Specification SpecNew: the stored root holds none, one or two of the      *)
(* databases A, B (a database may hold null, as set('', null) leaves it);   *)
(* the page constructs v2 instances (direct-call or promise mode) and v1    *)
(* instances bound to A, B or C.                                           *)
(***************************************************************************)
DbC == <<"C">>

NewNames == { DbA, DbB, DbC }

NewDocs ==
    { <<>>,
      [d \in {DbA} |-> IsoMap(1)],
      [d \in {DbA, DbB} |-> IF d = DbA THEN IsoMap(1) ELSE IsoMap(3)],
      [d \in {DbA, DbB} |-> IF d = DbA THEN Null ELSE IsoMap(3)],
      [d \in {DbA, DbB} |-> IF d = DbA THEN EmptyObj ELSE IsoMap(3)] }

InitNew ==
    /\ inst = <<>>
    /\ \E doc \in NewDocs : root = SavedRoot(doc)
    /\ calls = <<>>
    /\ hist = <<>>
    /\ keep = MaxOps

NextNew ==
    \/ \E i \in {"p", "q"}, name \in NewNames, useAsync \in BOOLEAN :
          Len(hist) < MaxOps /\ constructor(i, name, TRUE, useAsync)
    \/ \E name \in NewNames : Len(hist) < MaxOps /\ indexConstructor(name)

SpecNew == InitNew /\ [][NextNew]_vars

(***************************************************************************)
(* Specification SpecErr: a v1 instance on database A, which holds a number *)
(* at k and an object at o, next to database B; the page calls set (whole   *)
(* value or nested path) and setMultiple with values of which some hold a   *)
(* BigInt, while any write of the backend (setItem) may fail.              *)
(***************************************************************************)
ErrMap ==
    Obj(<< <<<<"k">>, Text(Num(1))>>,
           <<<<"o">>, Text(Obj(<< <<<<"p">>, Num(1)>> >>))>> >>)

ErrKeys == { <<"k">>, <<"o">>, <<"n">> }

ErrValues == { Num(2), Undef, BigInt(7), Obj(<< <<<<"a">>, Num(2)>>, <<<<"b">>, BigInt(7)>> >>) }

ErrPaths == { Str(<<>>), Str(<<"p">>) }

ErrBatches == { <<e, f>> : e, f \in {<<"k">>, <<"n">>} \X (ErrValues \ {Undef}) }

InitErr ==
    /\ inst = <<>>
    /\ root = [d \in {DbA, DbB} |-> IF d = DbA THEN ErrMap ELSE IsoData]
    /\ calls = <<>>
    /\ hist = <<>>
    /\ keep = MaxOps

NextErr ==
    \/ \E key \in ErrKeys, value \in ErrValues, path \in ErrPaths, throws \in BOOLEAN :
          Len(hist) < MaxOps /\ indexSetCatch(DbA, key, value, path, throws)
    \/ \E entries \in ErrBatches, throws \in BOOLEAN :
          Len(hist) < MaxOps /\ setMultipleCatch(DbA, entries, throws)

SpecErr == InitErr /\ [][NextErr]_vars

(***************************************************************************)
(* Specification SpecBackup: a v1 instance on database A, next to database  *)
(* B; the page calls export, set, clear and import, the data imported being *)
(* a map of its own or one that an earlier export returned.                *)
(***************************************************************************)
BackupOps == 4

BackupMaps ==
    { EmptyObj,
      Obj(<< <<<<"k">>, Text(Num(1))>>, <<<<"o">>, Text(Obj(<< <<<<"p">>, Num(1)>> >>))>> >>) }

ImportData ==
    { Obj(<< <<<<"k">>, Text(Num(9))>> >>),
      Obj(<< <<<<"j">>, Obj(<< <<<<"p">>, Num(1)>> >>)>>, <<<<"k">>, Num(3)>> >>) }

\* The maps that earlier calls of export returned.
Exported == { hist[n].res : n \in { m \in 1..Len(hist) : hist[m].op = "export" } }

InitBackup ==
    /\ inst = <<>>
    /\ \E db \in BackupMaps : root = [d \in {DbA, DbB} |-> IF d = DbA THEN db ELSE IsoData]
    /\ calls = <<>>
    /\ hist = <<>>
    /\ keep = BackupOps

NextBackup ==
    \/ Len(hist) < BackupOps /\ export(DbA)
    \/ Len(hist) < BackupOps /\ indexClear(DbA)
    \/ \E key \in {<<"k">>, <<"n">>} :
          Len(hist) < BackupOps /\ indexSet(DbA, key, Num(5), Str(<<>>))
    \/ \E data \in ImportData \cup Exported : Len(hist) < BackupOps /\ import(DbA, data)

SpecBackup == InitBackup /\ [][NextBackup]_vars

(***************************************************************************)
(* Specification SpecAt: the nested value accessors as functions.  root     *)
(* holds one tree under the name M; each step applies _setValueByPath or    *)
(* _getValueByPath, of v2 (case-sensitive or not) or of v1, to it with a    *)
(* sub-path of identifiers and bracketed indices, and keeps the tree        *)
(* returned.                                                               *)
(***************************************************************************)
AtOps == 2

AtTrees ==
    { EmptyObj,
      Obj(<< <<<<"a">>, Obj(<< <<<<"b">>, Num(1)>>, <<<<"c">>, Num(2)>> >>)>>,
             <<<<"z">>, Num(9)>> >>),
      Obj(<< <<<<"a">>, Arr(<<Obj(<< <<<<"b">>, Num(1)>> >>), Num(7)>>)>>,
             <<<<"z">>, Num(9)>> >>),
      Obj(<< <<<<"a">>, Num(5)>>, <<<<"z">>, Num(9)>> >>),
      Obj(<< <<<<"a">>, Obj(<< <<<<"b">>, Null>> >>)>> >>),
      Obj(<< <<<<"a">>, Arr(<<Num(5), Null>>)>>, <<<<"z">>, Num(9)>> >>),
      Num(5),
      S1("s"),
      Null,
      Num(0) }

AtPaths ==
    { Str(<<"a">>),
      Str(<<"a", ".", "b">>),
      Str(<<"a", ".", "b", ".", "c">>),
      Str(<<"A", ".", "b">>),
      Str(<<"a", "[", "1", "]">>),
      Str(<<"a", "[", "0", "]", ".", "b">>),
      Str(<<"a", "[", "2", "]", ".", "b">>),
      Str(<<"z", ".", "a", "[", "1", "]">>) }

AtValues == { Num(3), Null, Obj(<< <<<<"k">>, S1("s")>> >>) }

InitAt ==
    /\ inst = <<>>
    /\ \E tree \in AtTrees : root = [d \in {M} |-> tree]
    /\ calls = <<>>
    /\ hist = <<>>
    /\ keep = AtOps

NextAt ==
    \/ \E p \in AtPaths, v \in AtValues, caseSen \in BOOLEAN :
          Len(hist) < AtOps /\ setAt(M, p, v, caseSen)
    \/ \E p \in AtPaths, caseSen \in BOOLEAN : Len(hist) < AtOps /\ getAt(M, p, caseSen)
    \/ \E p \in AtPaths, v \in AtValues : Len(hist) < AtOps /\ indexSetAt(M, p, v)
    \/ \E p \in AtPaths : Len(hist) < AtOps /\ indexGetAt(M, p)
    \/ \E p \in AtPaths : Len(hist) < AtOps /\ indexDeleteAt(M, p)

SpecAt == InitAt /\ [][NextAt]_vars

(***************************************************************************)
(* Specification SpecHole: a v1 instance on database A, which holds an     *)
(* array under t.items; the page removes elements with removePath and      *)
(* reads them with get.                                                    *)
(***************************************************************************)
HoleOps == 3

HoleArrays ==
    { Arr(<<Num(1), Num(2), Num(3)>>),
      Arr(<<Obj(<< <<<<"p">>, Num(1)>> >>), Null, Num(7)>>),
      Arr(<<Num(5)>>) }

\* items[i]
ItemPath(i) == Str(<<"i", "t", "e", "m", "s", "[">> \o IndexString(i) \o <<"]">>)

HoleIndices == 0..3

InitHole ==
    /\ inst = <<>>
    /\ \E a \in HoleArrays :
          root = [d \in {DbA} |-> Obj(<< <<<<"t">>, Text(Obj(<< <<<<"i", "t", "e", "m", "s">>, a>> >>))>> >>)]
    /\ calls = <<>>
    /\ hist = <<>>
    /\ keep = HoleOps

NextHole ==
    \/ \E i \in HoleIndices : Len(hist) < HoleOps /\ removePath(DbA, <<"t">>, ItemPath(i))
    \/ \E i \in HoleIndices : Len(hist) < HoleOps /\ indexGet(DbA, <<"t">>, ItemPath(i))

SpecHole == InitHole /\ [][NextHole]_vars

(***************************************************************************)
(* Specification SpecNest: shortcuts whose name carries a sub-path.  Two   *)
(* instances on database M (direct call, promise); one call at a time;     *)
(* hist retains the last completed call.                                   *)
(***************************************************************************)
NestNames == { Str(<<"a">>), Str(<<"a", ".", "b">>), Str(<<"b", ".", "c">>) }

NestTargets == { Str(<<"c">>), Str(<<"a">>) }

NestValues == { Num(42), Obj(<< <<<<"b">>, Num(1)>> >>) }

InitNest ==
    /\ inst = [i \in {"direct", "promise"} |-> NewInstance(M, TRUE, i # "direct")]
    /\ root = AfterInit(<<>>, M)
    /\ calls = <<>>
    /\ hist = <<>>
    /\ keep = 1

NextNest ==
    \/ \E i \in DOMAIN inst, s \in NestNames, t \in NestTargets :
          calls = <<>> /\ setShortcut(i, s, t)
    \/ \E i \in DOMAIN inst, p \in NestNames \cup NestTargets, v \in NestValues :
          calls = <<>> /\ set(i, p, v)
    \/ \E i \in DOMAIN inst, p \in NestNames : calls = <<>> /\ get(i, p)
    \/ \E n \in 1..Len(calls) : setLoad(n)
    \/ \E n \in 1..Len(calls) : setSave(n)
    \/ \E n \in 1..Len(calls) : getLoad(n)

SpecNest == InitNest /\ [][NextNest]_vars

(***************************************************************************)
(* Specification SpecFolders: nested folder budgets.  An instance on       *)
(* database M configures budgets on the folders a and a\b in either order  *)
(* and checks writes of the key a\b\k against them; hist retains the last  *)
(* call.                                                                   *)
(***************************************************************************)
OuterFolder == <<"a">>

InnerFolder == <<"a", BackSlash, "b">>

NestedKey == <<"a", BackSlash, "b", BackSlash, "k">>

\* The folders as the page names them: a and a/b.
FolderNames == { Str(<<"a">>), Str(<<"a", "/", "b">>) }

NestedBudgets == {2, 6}

\* Serialized sizes 1 and 5.
NestedValues == { Num(1), Num(12345) }

FolderMaps ==
    { EmptyObj,
      Obj(<< <<NestedKey, Num(1)>> >>),
      Obj(<< <<(<<"a", BackSlash, "x">>), Num(12345)>> >>) }

InitFolders ==
    /\ inst = [i \in {"promise"} |-> NewInstance(M, TRUE, TRUE)]
    /\ \E db \in FolderMaps : root = [d \in {M} |-> db]
    /\ calls = <<>>
    /\ hist = <<>>
    /\ keep = 1

NextFolders ==
    \/ \E i \in DOMAIN inst, f \in FolderNames, b \in NestedBudgets : setFolderQuota(i, f, b)
    \/ \E i \in DOMAIN inst, f \in FolderNames : removeFolderQuota(i, f)
    \/ \E i \in DOMAIN inst, v \in NestedValues : checkBeforeSet(i, NestedKey, v)

SpecFolders == InitFolders /\ [][NextFolders]_vars

(***************************************************************************)
(* Specification SpecRead: reads.  Two instances on database A (direct     *)
(* call, promise), next to database B or not; the page calls get, has and  *)
(* keys, one call at a time, with paths of its own database, of B and of   *)
(* C, which is not registered.                                             *)
(***************************************************************************)
ReadDocs ==
    { <<>>,
      [d \in {DbA} |-> IsoMap(1)],
      [d \in {DbA, DbB} |-> IF d = DbA THEN IsoMap(1) ELSE IsoMap(3)] }

ReadFullPaths ==
    { Str(<<"k">>), Str(<<"n">>), Str(<<"B", ":", "k">>), Str(<<"C", ":", "k">>) }

InitRead ==
    /\ inst = [i \in {"direct", "promise"} |-> NewInstance(DbA, TRUE, i # "direct")]
    /\ \E doc \in ReadDocs : root = AfterInit(SavedRoot(doc), DbA)
    /\ calls = <<>>
    /\ hist = <<>>
    /\ keep = MaxOps

NextRead ==
    \/ \E i \in DOMAIN inst, p \in ReadFullPaths :
          calls = <<>> /\ Len(hist) < MaxOps /\ get(i, p)
    \/ \E i \in DOMAIN inst, p \in ReadFullPaths :
          calls = <<>> /\ Len(hist) < MaxOps /\ has(i, p)
    \/ \E i \in DOMAIN inst : calls = <<>> /\ Len(hist) < MaxOps /\ keysOf(i)
    \/ \E n \in 1..Len(calls) : getLoad(n)
    \/ \E n \in 1..Len(calls) : hasLoad(n)
    \/ \E n \in 1..Len(calls) : keysLoad(n)

SpecRead == InitRead /\ [][NextRead]_vars

(***************************************************************************)
(* Claims C1-C3 (checked under Spec)                                       *)
(***************************************************************************)
\* The stored document right after the instances were constructed.
Fresh(doc) == doc = (M :> EmptyObj)

\* A call that failed: it threw, or its promise resolved to an error message.
Failed(res) == res.t \in {"thrown", "error"}

PlainKey == Str(<<"a">>)

DottedPath == Str(<<"a", ".", "b">>)

FolderPath == Str(<<"d", "/", "q", ".", "x">>)

ColonPath == Str(<<"a", ":", "b">>)

SeparatorPath == Str(<<"a", BackSlash, "b">>)

DotDot == Str(<<".", ".">>)

\* get(p) right after set(p, v) by the same instance, on a fresh database.
RoundTripAt(n, paths, ids) ==
    /\ hist[n].op = "set" /\ hist[n + 1].op = "get"
    /\ hist[n].i = hist[n + 1].i /\ hist[n].i \in ids
    /\ hist[n].arg = hist[n + 1].arg /\ hist[n].arg \in paths
    /\ Fresh(hist[n].pre)

\* C1: on a fresh database, for a plain key, a key with a dot sub-path or a path
\* with folder segments p and any JSON value v, get(p) after set(p, v) returns v,
\* in direct-call mode and in promise mode.
C1_RoundTrip ==
    \A n \in 1..(Len(hist) - 1) :
        RoundTripAt(n, {PlainKey, DottedPath, FolderPath}, {"direct", "promise"})
            => hist[n + 1].res = hist[n].val

\* C1, the part the code keeps: in promise mode a plain key and a key with a dot
\* sub-path read back what was written.
C1_PromiseKeyRoundTrip ==
    \A n \in 1..(Len(hist) - 1) :
        RoundTripAt(n, {PlainKey, DottedPath}, {"promise"})
            => hist[n + 1].res = hist[n].val

C1_PromiseKeyRoundTrip_Witness ==
    /\ Len(hist) = 2
    /\ RoundTripAt(1, {DottedPath}, {"promise"})
    /\ hist[2].res = Null

\* C1 in promise mode for a path with folder segments: violated, set answers
\* InvalidPath and get finds nothing.
C1_PromiseFolderRoundTrip ==
    \A n \in 1..(Len(hist) - 1) :
        RoundTripAt(n, {FolderPath}, {"promise"}) => hist[n + 1].res = hist[n].val

\* C2: set(p, v) with ':' or a path separator inside p fails, and the stored
\* document (this database and every other) is the same after the call as before.
\* Any failure is accepted here, thrown or returned, whatever its message.
C2_ForbiddenCharRejected ==
    \A n \in 1..Len(hist) :
        (hist[n].op = "set" /\ hist[n].arg \in {ColonPath, SeparatorPath})
            => Failed(hist[n].res) /\ hist[n].post = hist[n].pre

\* C2, the part the code keeps: in promise mode a path whose normal form contains
\* the separator is answered with the InvalidPath message and nothing is stored.
C2_PromiseSeparatorRejected ==
    \A n \in 1..Len(hist) :
        (hist[n].op = "set" /\ hist[n].i = "promise" /\ hist[n].arg = SeparatorPath)
            => /\ hist[n].res = ErrorMessage("InvalidPath")
               /\ hist[n].post = hist[n].pre
               /\ hist[n].loads = 0 /\ hist[n].saves = 0

C2_PromiseSeparatorRejected_Witness ==
    \E n \in 1..Len(hist) :
        hist[n].op = "set" /\ hist[n].i = "promise" /\ hist[n].arg = SeparatorPath

\* C3: set('..', v) fails for every value v and the stored flat map of the database
\* is unchanged.  Any failure is accepted here, thrown or returned.
C3_DotDotRejected ==
    \A n \in 1..Len(hist) :
        (hist[n].op = "set" /\ hist[n].arg = DotDot)
            => Failed(hist[n].res) /\ hist[n].post[M] = hist[n].pre[M]

(***************************************************************************)
(* Claims C4-C6 (checked under SpecSC and SpecSCFair)                      *)
(***************************************************************************)
\* The entry stored at the top-level key that full path p names, in database M.
EntryAt(doc, p) == GetProp(doc[M], parseFullPath(p).path)

\* Where the chain of shortcuts that starts at p ends, following at most n links:
\* the non-shortcut entry it arrives at, or no end within n links (a cycle).
RECURSIVE ChainEnd(_, _, _)
ChainEnd(doc, p, n) ==
    LET e == EntryAt(doc, p) IN
    IF ~IsShortcut(e) THEN [ok |-> TRUE, v |-> e]
    ELSE IF n = 0 THEN [ok |-> FALSE, v |-> Undef]
    ELSE ChainEnd(doc, GetProp(e, ShortcutKey), n - 1)

\* A completed get(s1) where s1 starts a chain of shortcuts that ends at a key
\* holding a value.
ChainRead(h) ==
    /\ h.op = "get"
    /\ IsShortcut(EntryAt(h.pre, h.arg))
    /\ ChainEnd(h.pre, h.arg, Cardinality(ShortcutNames)).ok
    /\ ChainEnd(h.pre, h.arg, Cardinality(ShortcutNames)).v # Undef

\* C4: when keys s1..sn are shortcuts, each targeting the next, and sn targets a
\* key holding a non-shortcut value v, get(s1) returns v.
C4_ChainResolves ==
    \A n \in 1..Len(hist) :
        ChainRead(hist[n]) =>
            hist[n].res = ChainEnd(hist[n].pre, hist[n].arg, Cardinality(ShortcutNames)).v

\* C4 in promise mode only: there the chain resolves to the final value.
C4_PromiseChainResolves ==
    \A n \in 1..Len(hist) :
        (ChainRead(hist[n]) /\ hist[n].i # "direct") =>
            hist[n].res = ChainEnd(hist[n].pre, hist[n].arg, Cardinality(ShortcutNames)).v

\* A promise-mode get through a chain of two shortcuts has returned the value.
C4_PromiseChainResolves_Witness ==
    \E n \in 1..Len(hist) :
        /\ ChainRead(hist[n]) /\ hist[n].i = "promise"
        /\ IsShortcut(EntryAt(hist[n].pre, GetProp(EntryAt(hist[n].pre, hist[n].arg), ShortcutKey)))
        /\ hist[n].res = FinalValue

\* A get in flight.
GetInFlight == \E n \in 1..Len(calls) : calls[n].op = "get"

\* C5: shortcut resolution always terminates: every get, also one whose shortcuts
\* form a cycle, finishes after finitely many resolution steps.
C5_ResolutionTerminates == GetInFlight ~> (calls = <<>>)

\* A promise-mode get on a cycle of shortcuts has loaded the database more often
\* than there are shortcuts, and is still in flight.
C5_CycleFollowed ==
    \E n \in 1..Len(calls) :
        /\ calls[n].op = "get" /\ calls[n].loads = CountCap
        /\ ~ChainEnd(root, calls[n].arg, Cardinality(ShortcutNames)).ok

\* The stored key that a read of full path p by instance i matches: the key
\* itself, or in case-insensitive mode a key that differs from it in casing only.
MatchedEntry(doc, p, i) ==
    LET key == parseFullPath(p).path
        found == IF inst[i].caseSen THEN key ELSE FindKeyIgnoreCase(doc[M], key) IN
    IF HasKey(doc[M], key) THEN GetProp(doc[M], key)
    ELSE IF found = <<>> THEN Undef ELSE GetProp(doc[M], found)

\* C6: a read never returns a shortcut sentinel: when the entry stored at the
\* requested top-level key is a sentinel, get does not return it, whatever the
\* case mode and the casing of the requested key (a get that fails returns
\* no sentinel either).
C6_NeverReturnsSentinel ==
    \A n \in 1..Len(hist) :
        (/\ hist[n].op = "get"
         /\ IsShortcut(MatchedEntry(hist[n].pre, hist[n].arg, hist[n].i)))
        => ~IsShortcut(hist[n].res)

\* C6 for a key requested in the casing it is stored in: the sentinel is followed.
C6_ExactKeyNeverReturnsSentinel ==
    \A n \in 1..Len(hist) :
        (hist[n].op = "get" /\ IsShortcut(EntryAt(hist[n].pre, hist[n].arg)))
        => ~IsShortcut(hist[n].res)

\* A case-insensitive get of a stored shortcut, in its stored casing, returned a value.
C6_ExactKeyNeverReturnsSentinel_Witness ==
    \E n \in 1..Len(hist) :
        /\ hist[n].op = "get" /\ hist[n].i = "promiseCI"
        /\ IsShortcut(EntryAt(hist[n].pre, hist[n].arg))
        /\ hist[n].res = FinalValue

(***************************************************************************)
(* Claims C7-C10 (checked under SpecQuota)                                 *)
(***************************************************************************)
\* The flat map of database M in stored document doc.
FlatMap(doc) == IF Truthy(Revive(doc[M])) THEN Revive(doc[M]) ELSE EmptyObj

\* The key a completed set wrote to, and what is persisted at it afterwards.
KeyOf(h) == parseFullPath(h.arg).path

Persisted(h) == GetProp(FlatMap(h.post), KeyOf(h))

\* Serialized size of the entry currently at the key, 0 when there is none.
OldSize(h) ==
    IF HasKey(FlatMap(h.pre), KeyOf(h))
    THEN calculateSize(GetProp(FlatMap(h.pre), KeyOf(h))) ELSE 0

\* The folder quotas of the instance that cover the key, as positions in the map.
Covering(h) ==
    {n \in 1..Len(h.cfg.folderQuotas) : UnderFolder(KeyOf(h), h.cfg.folderQuotas[n][1])}

\* Projected sizes S - old + C: of the whole map, and of the first covering folder.
GlobalProjected(h) ==
    calculateSize(FlatMap(h.pre)) - OldSize(h) + calculateSize(h.val)

FolderProjected(h) ==
    LET n == CHOOSE c \in Covering(h) : \A d \in Covering(h) : c <= d IN
    calculateFolderSize(FlatMap(h.pre), h.cfg.folderQuotas[n][1])
        - OldSize(h) + calculateSize(h.val)

\* The active budget of a set: the folder budget when the key falls under a
\* configured folder, otherwise the global budget, if any; with the projected size
\* measured against it.
Active(h) ==
    IF Covering(h) # {}
    THEN [on |-> TRUE, projected |-> FolderProjected(h),
          budget |-> h.cfg.folderQuotas[CHOOSE c \in Covering(h) :
                                           \A d \in Covering(h) : c <= d][2]]
    ELSE IF h.cfg.quota # Null
    THEN [on |-> TRUE, projected |-> GlobalProjected(h), budget |-> h.cfg.quota.n]
    ELSE [on |-> FALSE, projected |-> 0, budget |-> 0]

\* A set that went through and stored the candidate unmodified.
StoredUnmodified(h) ==
    /\ h.res.t = "set" /\ h.res.allowed /\ ~h.res.storeNull
    /\ Persisted(h) = h.val

\* A set that ended with status storedNull, allowed, null persisted at the key.
StoredNull(h) ==
    /\ h.res.t = "set" /\ h.res.allowed
    /\ h.status = "storedNull"
    /\ Persisted(h) = Null

\* A set that was abandoned: cannotSave, not allowed, nothing saved or changed.
Abandoned(h) ==
    /\ h.res.t = "rejected" /\ ~h.res.allowed
    /\ h.status = "cannotSave"
    /\ h.saves = 0
    /\ h.post = h.pre

\* The premise of C7: a global budget B, S - old + C > B and C <= B.
NullFallbackCase(h) ==
    /\ h.op = "set" /\ h.cfg.quota # Null
    /\ GlobalProjected(h) > h.cfg.quota.n
    /\ calculateSize(h.val) <= h.cfg.quota.n

\* C7: with a global budget B configured, a set with S - old + C > B and C <= B
\* ends with status storedNull, is allowed, and null is persisted at the key.
C7_NullFallback ==
    \A n \in 1..Len(hist) : NullFallbackCase(hist[n]) => StoredNull(hist[n])

\* C7 in promise mode, for a key that no folder quota covers.
C7_PromiseNullFallback ==
    \A n \in 1..Len(hist) :
        (NullFallbackCase(hist[n]) /\ hist[n].i = "promise" /\ Covering(hist[n]) = {})
        => StoredNull(hist[n])

\* In promise mode null was stored in place of a candidate that is not null.
C7_PromiseNullFallback_Witness ==
    \E n \in 1..Len(hist) :
        /\ NullFallbackCase(hist[n]) /\ hist[n].i = "promise" /\ Covering(hist[n]) = {}
        /\ hist[n].val # Null /\ StoredNull(hist[n])

\* The premise of C8: the projected size and the candidate's own size both exceed
\* the active budget.
RejectionCase(h) ==
    /\ h.op = "set" /\ Active(h).on
    /\ Active(h).projected > Active(h).budget
    /\ calculateSize(h.val) > Active(h).budget

\* C8: when the projected size and the candidate's own size exceed the active
\* budget, the status is cannotSave, the result is not allowed, no save is issued
\* and the persisted flat map is the same after the set as before it.
C8_RejectionAbandons ==
    \A n \in 1..Len(hist) : RejectionCase(hist[n]) => Abandoned(hist[n])

\* C8 in promise mode.
C8_PromiseRejectionAbandons ==
    \A n \in 1..Len(hist) :
        (RejectionCase(hist[n]) /\ hist[n].i = "promise") => Abandoned(hist[n])

\* In promise mode a set was abandoned against a folder budget on a non-empty map.
C8_PromiseRejectionAbandons_Witness ==
    \E n \in 1..Len(hist) :
        /\ RejectionCase(hist[n]) /\ hist[n].i = "promise" /\ Covering(hist[n]) # {}
        /\ FlatMap(hist[n].pre) # EmptyObj /\ Abandoned(hist[n])

\* C9: a folder quota short-circuits the global quota: a write to a key under a
\* configured folder whose projected folder size is within the folder budget is
\* stored unmodified even when the projected size of the whole database exceeds
\* the global budget (a set that fails outright is not counted against this).
C9_FolderShortCircuits ==
    \A n \in 1..Len(hist) :
        (/\ hist[n].op = "set" /\ Covering(hist[n]) # {}
         /\ FolderProjected(hist[n]) <= Active(hist[n]).budget
         /\ hist[n].cfg.quota # Null
         /\ GlobalProjected(hist[n]) > hist[n].cfg.quota.n)
        => (Failed(hist[n].res) \/ StoredUnmodified(hist[n]))

\* C10: when the projected size of a write equals the active budget exactly (the
\* budget of the folder the key falls under, otherwise the global budget), the
\* status after the write is meet and the candidate is stored unmodified (a set
\* that fails outright is not counted against this).
C10_MeetOnExactFit ==
    \A n \in 1..Len(hist) :
        (/\ hist[n].op = "set" /\ Active(hist[n]).on
         /\ Active(hist[n]).projected = Active(hist[n]).budget)
        => (Failed(hist[n].res)
            \/ (hist[n].status = "meet" /\ StoredUnmodified(hist[n])))

\* C10 in promise mode against the global budget, for a key that no folder quota
\* covers and that holds no falsy entry: the status is meet.
C10_PromiseGlobalMeet ==
    \A n \in 1..Len(hist) :
        (/\ hist[n].op = "set" /\ hist[n].i = "promise"
         /\ Covering(hist[n]) = {} /\ Active(hist[n]).on
         /\ Active(hist[n]).projected = Active(hist[n]).budget
         /\ (HasKey(FlatMap(hist[n].pre), KeyOf(hist[n]))
                => Truthy(GetProp(FlatMap(hist[n].pre), KeyOf(hist[n])))))
        => (hist[n].status = "meet" /\ StoredUnmodified(hist[n]))

\* In promise mode a write that fits the global budget exactly ended with meet.
C10_PromiseGlobalMeet_Witness ==
    \E n \in 1..Len(hist) :
        /\ hist[n].op = "set" /\ hist[n].i = "promise"
        /\ Covering(hist[n]) = {} /\ Active(hist[n]).on
        /\ Active(hist[n]).projected = Active(hist[n]).budget
        /\ FlatMap(hist[n].pre) # EmptyObj
        /\ hist[n].status = "meet" /\ StoredUnmodified(hist[n])

(***************************************************************************)
(* Claims C11-C17 (checked under SpecRemove)                               *)
(***************************************************************************)
\* The calls of remove that completed, and those that wait for their save.
Removes ==
    { hist[n] : n \in { m \in 1..Len(hist) : hist[m].op = "remove" } }
    \cup { calls[n] : n \in { m \in 1..Len(calls) : calls[m].op = "remove"
                                                    /\ calls[m].pc = "save" } }

\* The pairs of call c the loop applied: pair j took the map c.steps[j] to the
\* map c.steps[j + 1].
Applied(c, token) ==
    { j \in 1..Len(c.arg) : j + 1 <= Len(c.steps) /\ c.arg[j][2] = token }

Folder(c, j) == normalizePath(c.arg[j][1])

Before(c, j) == c.steps[j]

After(c, j) == c.steps[j + 1]

\* Key k is folder F itself or lies beneath it.
InFolder(k, F) ==
    \/ k = F
    \/ Len(k) > Len(F) /\ SubSeq(k, 1, Len(F)) = F /\ k[Len(F) + 1] = BackSlash

\* What is left of key k beneath folder F after F and the separator.
Remainder(k, F) == SubSeq(k, Len(F) + 2, Len(k))

KeySet(db) == { ObjectKeys(db)[n] : n \in 1..Len(ObjectKeys(db)) }

\* The map with the keys a, a\b, a\b\c and a\d.
ExampleMap == Obj(SubSeq(FlatEntries, 1, 4))

ExampleFolder == <<"a">>

DirectChild(k, F) ==
    InFolder(k, F) /\ k # F /\ ~Includes(Remainder(k, F), BackSlash)

\* Key k lies deeper beneath folder F: its remainder holds a further separator.
Deeper(k, F) ==
    InFolder(k, F) /\ k # F /\ Includes(Remainder(k, F), BackSlash)

\* C12: strategy 'root' for folder F removes exactly the direct children of F and
\* keeps every deeper key and every key outside F with its value unchanged; for
\* folder a, key a\b is removed and key a\b\c survives.
C12_RootRemovesDirectChildren ==
    \A c \in Removes : \A j \in Applied(c, "root") :
        /\ KeySet(After(c, j)) = { k \in KeySet(Before(c, j)) : ~DirectChild(k, Folder(c, j)) }
        /\ \A k \in KeySet(After(c, j)) : GetProp(After(c, j), k) = GetProp(Before(c, j), k)

\* The rule of 'nestedFolders' for the pair j of call c: direct children of the
\* folder stay, deeper keys go, keys outside the folder stay, values unchanged.
NestedRule(c, j) ==
    /\ \A k \in KeySet(Before(c, j)) :
          /\ DirectChild(k, Folder(c, j)) => k \in KeySet(After(c, j))
          /\ Deeper(k, Folder(c, j)) => k \notin KeySet(After(c, j))
          /\ ~InFolder(k, Folder(c, j)) => k \in KeySet(After(c, j))
    /\ KeySet(After(c, j)) \subseteq KeySet(Before(c, j))
    /\ \A k \in KeySet(After(c, j)) : GetProp(After(c, j), k) = GetProp(Before(c, j), k)

\* C13: strategy 'nestedFolders' for folder F is the inverse of 'root': it keeps
\* the direct children of F and removes every key under F whose remainder holds a
\* further separator, so that beneath F it keeps exactly what 'root' removes; over
\* the keys a, a\b, a\b\c, a\d and folder a the surviving key set is {a\b, a\d};
\* keys outside F are unchanged.
C13_NestedInverseOfRoot ==
    \A c \in Removes : \A j \in Applied(c, "nestedFolders") :
        /\ NestedRule(c, j)
        /\ (Before(c, j) = ExampleMap /\ Folder(c, j) = ExampleFolder)
              => KeySet(After(c, j)) = { <<"a", BackSlash, "b">>, <<"a", BackSlash, "d">> }
        /\ \A k \in KeySet(Before(c, j)) :
              (InFolder(k, Folder(c, j)) /\ k # Folder(c, j))
                 => (k \in KeySet(After(c, j))
                        <=> k \notin KeySet(deleteRootKeys(Before(c, j), Folder(c, j))))

\* What holds of 'nestedFolders': its rule for direct children, deeper keys and
\* keys outside the folder.
C13_NestedRuleHolds ==
    \A c \in Removes : \A j \in Applied(c, "nestedFolders") : NestedRule(c, j)

Removed(modes) ==
    { hist[n] : n \in { m \in 1..Len(hist) : hist[m].op = "remove" /\ hist[m].i \in modes } }

DatabaseKeysCall == << <<Null, "databaseKeys">> >>

DatabaseCall == << <<Null, "database">> >>

\* What C15 states of the completed call h; the call is the last thing that ran,
\* so that listDatabases lists the names of the document it left.
WholeDatabaseRemoved(h) ==
    /\ h.arg = DatabaseKeysCall =>
          /\ M \in listDatabases
          /\ ObjectKeys(Revive(h.post[M])) = <<>>
    /\ h.arg = DatabaseCall => M \notin listDatabases
    /\ h.arg \in {DatabaseKeysCall, DatabaseCall} =>
          /\ root = h.post
          /\ \A d \in DOMAIN h.pre \ {M} : d \in DOMAIN h.post /\ h.post[d] = h.pre[d]
          /\ DOMAIN h.post \subseteq DOMAIN h.pre

\* C15: after remove(null, 'databaseKeys') the database has zero keys and its name
\* is still listed by listDatabases; after remove(null, 'database') the name is no
\* longer listed; in both cases every other database is unchanged.
C15_WholeDatabaseRemovals ==
    \A h \in Removed({"direct", "promise"}) : WholeDatabaseRemoved(h)

\* C15 for calls made in promise mode.
C15_PromiseWholeDatabaseRemovals ==
    \A h \in Removed({"promise"}) : WholeDatabaseRemoved(h)

\* Promise mode: remove(null, 'database') completed on a database that held keys,
\* and the name M is gone while D is listed.
C15_PromiseWholeDatabaseRemovals_Witness ==
    \E h \in Removed({"promise"}) :
        /\ h.arg = DatabaseCall
        /\ Revive(h.pre[M]) = Obj(FlatEntries)
        /\ listDatabases = {D}

\* The strategy of pair p, as a map from flat maps to flat maps.
PairResult(db, p) ==
    IF p = <<Null, "databaseKeys">> THEN EmptyObj
    ELSE ApplyStrategy(db, normalizePath(p[1]), p[2])

\* The strategies of the pairs ps composed in argument order: the last pair is
\* applied to what the pairs before it make of db.
RECURSIVE Composition(_, _)
Composition(db, ps) ==
    IF ps = <<>> THEN db
    ELSE PairResult(Composition(db, SubSeq(ps, 1, Len(ps) - 1)), ps[Len(ps)])

\* The flat map of database M a document holds, the empty map when it has none.
MapOf(doc) == IF M \in DOMAIN doc THEN Revive(doc[M]) ELSE EmptyObj

\* What C16 states of the completed call h.
BatchApplied(h) ==
    /\ h.saves = 1
    /\ Len(h.steps) = Len(h.arg) + 1
    /\ M \in DOMAIN h.post
    /\ MapOf(h.post) = Composition(MapOf(h.pre), h.arg)
    /\ \A d \in DOMAIN h.pre \ {M} : h.post[d] = h.pre[d]

\* While a call of remove is in flight the stored document is the one it found.
NothingVisibleBeforeSave ==
    \A n \in 1..Len(calls) : calls[n].op = "remove" => root = calls[n].pre

\* C16: a call of remove with several pairs applies them in argument order, each
\* to the result of the one before, on a copy of the loaded map held in memory, and
\* issues exactly one save, after the last pair; no intermediate map is visible in
\* the stored document and the persisted map is the composition of the strategies.
C16_BatchAppliedInOrder ==
    /\ NothingVisibleBeforeSave
    /\ \A h \in Removed({"direct", "promise"}) : BatchApplied(h)

\* C16 for calls made in promise mode whose pairs do not include (null, 'database').
C16_PromiseBatchAppliedInOrder ==
    /\ NothingVisibleBeforeSave
    /\ \A h \in Removed({"promise"}) :
          (\A j \in 1..Len(h.arg) : h.arg[j] # <<Null, "database">>) => BatchApplied(h)

\* Promise mode: remove('a/b', 'folder', 'a', 'structure') completed on the map
\* with all five keys: a and a\d are saved as empty containers next to ab.
C16_PromiseBatchAppliedInOrder_Witness ==
    \E h \in Removed({"promise"}) :
        /\ h.arg = << <<Str(<<"a", "/", "b">>), "folder">>, <<Str(<<"a">>), "structure">> >>
        /\ MapOf(h.pre) = Obj(FlatEntries)
        /\ h.saves = 1
        /\ MapOf(h.post) = Obj(<< <<<<"a">>, EmptyObj>>, <<<<"a", BackSlash, "d">>, EmptyObj>>,
                                  FlatEntries[5] >>)

\* The tokens remove knows.
Recognized == KnownStrategies \cup {"database", "databaseKeys"}

\* The positions of the pairs of call h whose token is not recognized.
UnknownPairs(h) == { j \in 1..Len(h.arg) : h.arg[j][2] \notin Recognized }

\* The pairs of call h without those of an unrecognized token.
KnownPairs(h) == SelectSeq(h.arg, LAMBDA p : p[2] \in Recognized)

\* What C17 states of the completed call h.
UnknownReportedNotFatal(h) ==
    UnknownPairs(h) # {} =>
        /\ \A j \in UnknownPairs(h) : \E w \in 1..Len(h.warn) : h.warn[w] = h.arg[j][2]
        /\ h.saves = 1
        /\ M \in DOMAIN h.post
        /\ MapOf(h.post) = Composition(MapOf(h.pre), KnownPairs(h))

\* C17: an unrecognized strategy token in a batched remove is reported and does
\* not abort the batch: every other pair of the call, before and after it, is
\* still applied and the result is saved, so that the persisted map is what the
\* call without the unknown pair would have produced.
C17_UnknownTokenReported ==
    \A h \in Removed({"direct", "promise"}) : UnknownReportedNotFatal(h)

\* C17 for calls made in promise mode whose pairs do not include (null, 'database').
C17_PromiseUnknownTokenReported ==
    \A h \in Removed({"promise"}) :
        (\A j \in 1..Len(h.arg) : h.arg[j] # <<Null, "database">>)
           => UnknownReportedNotFatal(h)

\* Promise mode: remove('a', 'purge', 'a', 'folder') completed on the map with all
\* five keys: the token was warned about and the key ab alone was saved.
C17_PromiseUnknownTokenReported_Witness ==
    \E h \in Removed({"promise"}) :
        /\ h.arg = << <<Str(<<"a">>), "purge">>, <<Str(<<"a">>), "folder">> >>
        /\ MapOf(h.pre) = Obj(FlatEntries)
        /\ h.warn = <<"purge">>
        /\ MapOf(h.post) = Obj(<< FlatEntries[5] >>)

(***************************************************************************)
(* Claims C18-C19 (checked under SpecKey)                                  *)
(***************************************************************************)
\* What the path of call h addresses: the database, the flat-map key, and the
\* properties of the dot sub-path into the value stored at the key.
Address(h) ==
    LET parsed == parseFullPath(h.arg)
        parts == Split(parsed.path, {"."})
    IN  [db |-> IF parsed.dbName # NoDb THEN parsed.dbName ELSE h.cfg.dbName,
         key |-> parts[1], props |-> Tail(parts)]

\* The flat map of database d as loaded from a stored document, the empty map
\* when absent.
DbMap(doc, d) == IF d \in DOMAIN doc THEN Revive(doc[d]) ELSE EmptyObj

\* The flat map without what address a addresses (sub-paths of one property).
WithoutAddressed(db, a) ==
    IF a.props = <<>> THEN DeleteProp(db, a.key)
    ELSE IF HasKey(db, a.key)
    THEN PutProp(db, a.key, DeleteProp(GetProp(db, a.key), a.props[1]))
    ELSE db

\* What C18 states of the completed removeKey at position n of hist.
KeyRemoved(n) ==
    /\ \A d \in DOMAIN hist[n].pre :
          DbMap(hist[n].post, d) =
             IF d = Address(hist[n]).db
             THEN WithoutAddressed(DbMap(hist[n].pre, d), Address(hist[n]))
             ELSE DbMap(hist[n].pre, d)
    /\ (/\ n < Len(hist)
        /\ hist[n + 1].op = "get" /\ hist[n + 1].i = hist[n].i
        /\ hist[n + 1].arg = hist[n].arg)
       => hist[n + 1].res = Undef

\* C18: removeKey(p) removes what p addresses: after it completes, get(p) returns
\* undefined, both when p is a whole key and when p carries a dot sub-path into a
\* stored value, and every other key and every sibling property keeps its value
\* (a call that returns without having run is not counted against this).
C18_RemoveKeyRemoves ==
    \A n \in 1..Len(hist) :
        (hist[n].op = "removeKey" /\ hist[n].res = Null) => KeyRemoved(n)

\* C18 for paths that are a whole key.
C18_PromiseWholeKeyRemoved ==
    \A n \in 1..Len(hist) :
        (/\ hist[n].op = "removeKey" /\ hist[n].res = Null
         /\ Address(hist[n]).props = <<>>)
        => KeyRemoved(n)

\* Promise mode: removeKey('D:k') from the instance on M, then get('D:k'): the key
\* is gone from D, the get returns undefined.
C18_PromiseWholeKeyRemoved_Witness ==
    /\ Len(hist) = 2
    /\ hist[1].op = "removeKey" /\ hist[1].i = "promise"
    /\ hist[1].arg = Str(<<"D", ":", "k">>) /\ hist[1].res = Null
    /\ HasKey(DbMap(hist[1].pre, D), <<"k">>)
    /\ ~HasKey(DbMap(hist[1].post, D), <<"k">>)
    /\ hist[2].op = "get" /\ hist[2].i = "promise" /\ hist[2].arg = hist[1].arg
    /\ hist[2].res = Undef

\* The value database a.db holds at address a in a stored document.
Held(doc, a) ==
    IF a.props = <<>> THEN GetProp(DbMap(doc, a.db), a.key)
    ELSE GetProp(GetProp(DbMap(doc, a.db), a.key), a.props[1])

\* hist[n] is a get of 'D:p' on an instance bound to M and hist[m] a get of 'p' on
\* an instance bound to D, with D holding the same value at p for both.
CrossRead(n, m) ==
    /\ hist[n].op = "get" /\ hist[m].op = "get"
    /\ hist[n].cfg.dbName = M /\ hist[m].cfg.dbName = D
    /\ parseFullPath(hist[n].arg).dbName = D
    /\ parseFullPath(hist[m].arg).dbName = NoDb
    /\ parseFullPath(hist[n].arg).path = parseFullPath(hist[m].arg).path
    /\ Held(hist[n].pre, Address(hist[n])) # Undef
    /\ Held(hist[m].pre, Address(hist[m])) = Held(hist[n].pre, Address(hist[n]))

\* C19: for an instance bound to M and a database D holding value v at path p,
\* get('D:p') on the M instance returns the same v that get('p') returns on an
\* instance bound to D.
C19_CrossDatabaseRead ==
    \A n, m \in 1..Len(hist) :
        CrossRead(n, m) =>
            /\ hist[n].res = hist[m].res
            /\ hist[n].res = Held(hist[n].pre, Address(hist[n]))

\* C19 for an M instance in promise mode.
C19_PromiseCrossDatabaseRead ==
    \A n, m \in 1..Len(hist) :
        (CrossRead(n, m) /\ hist[n].i = "promise") =>
            /\ hist[n].res = hist[m].res
            /\ hist[n].res = Held(hist[n].pre, Address(hist[n]))

\* Promise mode: get('D:t.lead') on the instance on M and get('t.lead') on the
\* instance on D both returned the lead stored in D.
C19_PromiseCrossDatabaseRead_Witness ==
    /\ Len(hist) = 2
    /\ CrossRead(1, 2)
    /\ hist[1].i = "promise" /\ hist[2].i = "other"
    /\ hist[1].arg = Str(<<"D", ":", "t", ".", "l", "e", "a", "d">>)
    /\ hist[1].res = S1("y") /\ hist[2].res = S1("y")

(***************************************************************************)
(* Claim C20 (checked under SpecIso)                                       *)
(***************************************************************************)
\* The call in flight at position n is the one that takes the step: it completes
\* and leaves calls, or it moves on.
Acts(n) ==
    \/ calls' = SubSeq(calls, 1, n - 1) \o SubSeq(calls, n + 1, Len(calls))
    \/ Len(calls') = Len(calls) /\ calls'[n] # calls[n]

\* The step is taken by a call addressed to database d: a call in flight whose
\* target is d, or a v1 call, complete within the step, on an instance bound to d.
AddressedTo(d) ==
    \/ \E n \in 1..Len(calls) : calls[n].target = d /\ Acts(n)
    \/ /\ calls' = calls /\ Len(hist') = Len(hist) + 1
       /\ hist'[Len(hist')].cfg.dbName = d

BothLoaded == Len(calls) = 2 /\ \A n \in 1..2 : calls[n].op = "set" /\ calls[n].pc = "save"

\* Both calls have completed; hist holds them in the order of their saves.
BothFinished == calls = <<>> /\ Len(hist) = 2

\* The stored map is the map both calls found with the key of the later save
\* written to it; the key of the earlier save is as it was, absent when it was
\* absent.
LaterSaveOnly ==
    /\ DbMap(root, M) = PutProp(DbMap(hist[2].pre, M), KeyOf(hist[2]), hist[2].val)
    /\ GetProp(DbMap(root, M), KeyOf(hist[1])) = GetProp(DbMap(hist[1].pre, M), KeyOf(hist[1]))
    /\ ~HasKey(DbMap(hist[1].pre, M), KeyOf(hist[1])) => ~HasKey(DbMap(root, M), KeyOf(hist[1]))

SameCallBothModes(n, m) ==
    /\ hist[n].op = hist[m].op /\ hist[n].arg = hist[m].arg /\ hist[n].val = hist[m].val
    /\ hist[n].pre = hist[m].pre
    /\ ~hist[n].cfg.useAsync /\ hist[m].cfg.useAsync
    /\ hist[n].cfg.dbName = hist[m].cfg.dbName

\* C22: mode equivalence: for public calls executed one after another on the
\* localStorage backend, an instance in direct-call mode and an instance in
\* promise mode return the same results and leave the same persisted flat map
\* after every call.
C22_ModeEquivalence ==
    \A n, m \in 1..Len(hist) :
        SameCallBothModes(n, m) =>
            /\ hist[n].res = hist[m].res
            /\ hist[n].post = hist[m].post

(***************************************************************************)
(* Claim C23 (checked under Spec)                                          *)
(***************************************************************************)
\* The path of a call of set fails validation: what is left of it after the
\* database prefix is taken off and the path is normalised holds a colon or a
\* backslash.
FailsValidation(fullPath) ==
    \/ Includes(parseFullPath(fullPath).path, ":")
    \/ Includes(parseFullPath(fullPath).path, BackSlash)

\* C23: fail fast: when set is called with a path that fails validation, the
\* error is produced before any backend load and before any save is attempted:
\* the call is never in flight waiting for a load or a save, and it completes
\* with an error, without a load, without a save, the stored document untouched.
C23_FailFast ==
    /\ \A n \in 1..Len(calls) :
          calls[n].op = "set" => ~FailsValidation(calls[n].arg)
    /\ \A n \in 1..Len(hist) :
          (hist[n].op = "set" /\ FailsValidation(hist[n].arg)) =>
              /\ Failed(hist[n].res)
              /\ hist[n].loads = 0 /\ hist[n].saves = 0
              /\ hist[n].post = hist[n].pre

\* Promise mode: set('d/q.x', v) completed with the validation error, without a
\* load and without a save.
C23_FailFast_Witness ==
    \E n \in 1..Len(hist) :
        /\ hist[n].op = "set" /\ hist[n].i = "promise" /\ hist[n].arg = FolderPath
        /\ FailsValidation(hist[n].arg)
        /\ hist[n].res = ErrorMessage("InvalidPath")
        /\ hist[n].loads = 0 /\ hist[n].saves = 0

(***************************************************************************)
(* Claim C24 (checked under SpecFail)                                      *)
(***************************************************************************)
\* What a caller can tell from a failure: an error, an error message, or a set
\* result whose saveResult is not null.
ReportsFailure(res) ==
    \/ res.t \in {"thrown", "error"}
    \/ res.t = "set" /\ res.saveResult # Null

\* C24: backend failures are never reported as success: when a read or a write of
\* the backend failed during set, remove (remove(null, 'database') included) or
\* removeKey, the call returns a failure result, and after a failed load the
\* stored document is what it was (no empty map is saved over it).
C24_BackendFailureReported ==
    \A n \in 1..Len(hist) :
        FailedCalls(hist[n]) # {}
            => /\ ReportsFailure(hist[n].res)
               /\ (FailedCalls(hist[n]) \cap {"load", "reload"} # {}
                      => hist[n].post = hist[n].pre)

(***************************************************************************)
(* Claim C25 (checked under SpecCase)                                      *)
(***************************************************************************)
\* The name a path segment gives: the part before a bracketed index, if any.
SegmentName(seg) == IF ArrayMatch(seg).ok THEN ArrayMatch(seg).name ELSE seg

\* The entry a path names when casing is ignored: at each segment the first
\* property whose name equals the segment's name up to casing, then the element
\* at the bracketed index.
RECURSIVE CaseLookup(_, _)
CaseLookup(v, segs) ==
    IF segs = <<>> THEN v
    ELSE IF v.t # "obj" THEN Undef
    ELSE LET k == FindKeyIgnoreCase(v, SegmentName(Head(segs)))
             p == IF k = <<>> THEN Undef ELSE GetProp(v, k)
             e == IF ~ArrayMatch(Head(segs)).ok THEN p
                  ELSE IF p.t = "arr" THEN ElemAt(p, ArrayMatch(Head(segs)).index)
                  ELSE Undef IN
         CaseLookup(e, Tail(segs))

Segments(fullPath) == Split(parseFullPath(fullPath).path, {"."})

\* The call names a key that database M already holds under some casing.
NamesHeldKey(h) ==
    /\ h.op \in {"set", "get"}
    /\ ~h.cfg.caseSen
    /\ FindKeyIgnoreCase(deserializeData(h.pre[M]),
                         SegmentName(Head(Segments(h.arg)))) # <<>>

\* C25: with caseSen = false the first writer wins: a set or get that names, under
\* another casing, a key or property that a set created reads and updates that
\* same entry, and keys() reports each key once, under the casing it was created
\* with.
C25_FirstWriterWins ==
    \A n \in 1..Len(hist) :
        /\ (NamesHeldKey(hist[n]) /\ hist[n].op = "set")
              => /\ ~Failed(hist[n].res)
                 /\ ObjectKeys(deserializeData(hist[n].post[M]))
                       = ObjectKeys(deserializeData(hist[n].pre[M]))
                 /\ CaseLookup(deserializeData(hist[n].post[M]), Segments(hist[n].arg))
                       = hist[n].val
        /\ (NamesHeldKey(hist[n]) /\ hist[n].op = "get")
              => hist[n].res = CaseLookup(deserializeData(hist[n].pre[M]),
                                          Segments(hist[n].arg))
        /\ (hist[n].op = "keys" /\ ~hist[n].cfg.caseSen)
              => /\ hist[n].res = KeyList(ObjectKeys(deserializeData(hist[n].pre[M])))
                 /\ \A a, b \in 1..Len(hist[n].res.ks) :
                       toLowerCase(hist[n].res.ks[a]) = toLowerCase(hist[n].res.ks[b])
                          => a = b

\* The same, for the promise-mode instance and paths without a bracketed index.
C25_FirstWriterWinsPlainKeys ==
    \A n \in 1..Len(hist) :
        (/\ hist[n].i = "promiseCI"
         /\ \A m \in 1..n : hist[m].i = "promiseCI"
         /\ hist[n].op \in {"set", "get"}
         /\ \A m \in 1..n : hist[m].op = "keys"
                            \/ \A j \in 1..Len(Segments(hist[m].arg)) :
                                  ~ArrayMatch(Segments(hist[m].arg)[j]).ok)
            => LET h == hist[n] IN
               /\ (NamesHeldKey(h) /\ h.op = "set")
                     => /\ ObjectKeys(deserializeData(h.post[M]))
                              = ObjectKeys(deserializeData(h.pre[M]))
                        /\ CaseLookup(deserializeData(h.post[M]), Segments(h.arg)) = h.val
               /\ (NamesHeldKey(h) /\ h.op = "get")
                     => h.res = CaseLookup(deserializeData(h.pre[M]), Segments(h.arg))

(***************************************************************************)
(* Claim C26 (checked under SpecNew)                                       *)
(***************************************************************************)
\* The flat map an instance bound to d loads from a stored document:
\* root[d] || {}.
LoadedMap(doc, d) == IF Truthy(DbMap(doc, d)) THEN DbMap(doc, d) ELSE EmptyObj

GivenValues(h) ==
    IF h.op = "set" THEN {h.val} ELSE { h.arg[j][2] : j \in 1..Len(h.arg) }

\* The stored map holds the text of every whole value the call was given (for a
\* key given twice in a batch, of the later one).
EntriesStored(h) ==
    /\ (h.op = "set" /\ h.arg[2] = Str(<<>>) /\ h.val # Undef)
          => GetProp(h.post[h.cfg.dbName], h.arg[1]) = Text(JsonTree(h.val))
    /\ h.op = "setMultiple"
          => \A j \in 1..Len(h.arg) :
                (\A m \in (j + 1)..Len(h.arg) : h.arg[m][1] # h.arg[j][1])
                   => GetProp(h.post[h.cfg.dbName], h.arg[j][1]) = Text(JsonTree(h.arg[j][2]))

\* C27: v1's set and setMultiple return null or an error message; when a value
\* does not serialize (for setMultiple: any one value of the batch) or the write
\* of the backend fails the result is an error message; whenever the result is an
\* error message the stored document is what it was before the call, so none of
\* a failed batch's entries is persisted; and when the result is null the values
\* given are stored.
C27_ErrorContract ==
    \A n \in 1..Len(hist) :
        hist[n].op \in {"set", "setMultiple"}
            => /\ hist[n].res = Null \/ hist[n].res.t = "error"
               /\ (\E v \in GivenValues(hist[n]) : HoldsBigInt(v)) => hist[n].res # Null
               /\ FailedCalls(hist[n]) # {} => hist[n].res # Null
               /\ hist[n].res # Null => hist[n].post = hist[n].pre
               /\ hist[n].res = Null => EntriesStored(hist[n])

\* setMultiple([['n', 2], ['k', 7n]]): the second value does not serialize; the
\* call returned an error message and n, the first entry, is not stored.
C27_ErrorContract_Witness ==
    \E n \in 1..Len(hist) :
        /\ hist[n].op = "setMultiple"
        /\ hist[n].arg = << <<<<"n">>, Num(2)>>, <<<<"k">>, BigInt(7)>> >>
        /\ hist[n].res = ErrorMessage("SerializationError")
        /\ hist[n].post = hist[n].pre
        /\ ~HasKey(root[DbA], <<"n">>)
        /\ n > 1 /\ hist[n - 1].op = "set" /\ hist[n - 1].res = Null

(***************************************************************************)
(* Claim C28 (checked under SpecBackup)                                    *)
(***************************************************************************)
\* The map a v1 instance bound to d loads from a stored document.
IndexMap(doc, d) == IF d \in DOMAIN doc /\ Truthy(doc[d]) THEN doc[d] ELSE EmptyObj

\* Two maps have the same keys with the same values.
SameEntries(a, b) ==
    KeySet(a) = KeySet(b) /\ \A k \in KeySet(a) : GetProp(a, k) = GetProp(b, k)

\* import(d) at position n of hist left every key of d mapped to d's value and
\* every other key as it was.
Imported(n) ==
    LET before == IndexMap(hist[n].pre, hist[n].cfg.dbName)
        after == IndexMap(hist[n].post, hist[n].cfg.dbName)
        d == hist[n].arg
    IN  /\ hist[n].res = Null
        /\ KeySet(after) = KeySet(before) \cup KeySet(d)
        /\ \A k \in KeySet(d) : GetProp(after, k) = GetProp(d, k)
        /\ \A k \in KeySet(before) \ KeySet(d) : GetProp(after, k) = GetProp(before, k)

\* C28: v1's import(d) leaves every key of d mapped to d's value and every key
\* not in d unchanged; so import(b) right after b = export() leaves the database
\* unchanged, and clear() followed by import(b) restores exactly the keys and
\* values the database had when b was exported, whatever was stored in between.
C28_BackupRestore ==
    \A n \in 1..Len(hist) :
        hist[n].op = "import"
            => /\ Imported(n)
               /\ (n > 1 /\ hist[n - 1].op = "export" /\ hist[n].arg = hist[n - 1].res)
                     => hist[n].post = hist[n].pre
               /\ \A e \in 1..(n - 2) :
                     (/\ hist[e].op = "export" /\ hist[n].arg = hist[e].res
                      /\ hist[n - 1].op = "clear")
                        => SameEntries(IndexMap(hist[n].post, DbA), IndexMap(hist[e].pre, DbA))

\* b = export() of {k, o}; set('n', 5); clear(); import(b): the database holds k
\* and o with the values exported, and not n.
C28_BackupRestore_Witness ==
    /\ Len(hist) = 4
    /\ hist[1].op = "export" /\ KeySet(hist[1].res) = {<<"k">>, <<"o">>}
    /\ hist[2].op = "set" /\ hist[2].arg[1] = <<"n">> /\ hist[2].res = Null
    /\ hist[3].op = "clear" /\ IndexMap(hist[3].post, DbA) = EmptyObj
    /\ hist[4].op = "import" /\ hist[4].arg = hist[1].res
    /\ IndexMap(root, DbA) = hist[1].res
    /\ ~HasKey(IndexMap(root, DbA), <<"n">>)

(***************************************************************************)
(* Claims C29-C30 (checked under SpecAt)                                   *)
(***************************************************************************)
\* The value at a location of a tree, a location being the sequence of the
\* property names and indices that lead to it.
RECURSIVE At(_, _)
At(tree, ks) ==
    IF ks = <<>> THEN tree
    ELSE IF tree.t \notin {"obj", "arr"} THEN Undef
    ELSE At(GetProp(tree, Head(ks)), Tail(ks))

\* The locations of a tree.
RECURSIVE Locations(_)
Locations(tree) ==
    {<<>>} \cup
    IF tree.t \in {"obj", "arr"}
    THEN UNION { { <<ObjectKeys(tree)[j]>> \o l :
                     l \in Locations(GetProp(tree, ObjectKeys(tree)[j])) } :
                 j \in 1..Len(ObjectKeys(tree)) }
    ELSE {}

\* The property a segment names in an object: with caseSen = false a plain
\* identifier names the first property equal to it up to casing.
Named(cur, seg, caseSen) ==
    IF ~caseSen /\ ~ArrayMatch(seg).ok /\ FindKeyIgnoreCase(cur, seg) # <<>>
    THEN FindKeyIgnoreCase(cur, seg)
    ELSE SegmentName(seg)

\* The location a sub-path names in a tree.
RECURSIVE LocationOf(_, _, _)
LocationOf(cur, segs, caseSen) ==
    IF segs = <<>> THEN <<>>
    ELSE LET k == Named(cur, Head(segs), caseSen)
             here == IF ArrayMatch(Head(segs)).ok
                     THEN <<k, IndexString(ArrayMatch(Head(segs)).index)>>
                     ELSE <<k>> IN
         here \o LocationOf(At(cur, here), Tail(segs), caseSen)

\* Every intermediate along the sub-path is missing or is a container of the
\* kind the sub-path expects: an array where a bracketed index follows, an
\* object where a further segment follows.
RECURSIVE Conforms(_, _, _)
Conforms(cur, segs, caseSen) ==
    /\ cur.t = "obj"
    /\ LET seg == Head(segs)
           x == GetProp(cur, Named(cur, seg, caseSen))
           elem == IF ArrayMatch(seg).ok /\ x.t = "arr"
                   THEN ElemAt(x, ArrayMatch(seg).index) ELSE x IN
       /\ ArrayMatch(seg).ok => x.t \in {"undef", "arr"}
       /\ Len(segs) > 1 => (elem = Undef \/ Conforms(elem, Tail(segs), caseSen))

IsPrefix(a, b) == Len(a) <= Len(b) /\ SubSeq(b, 1, Len(a)) = a

\* What C29 states of the setAt at position n of hist.
RoundTrip(n) ==
    LET h == hist[n]
        tree == h.pre[h.cfg.dbName]
        after == h.post[h.cfg.dbName]
        segs == Split(h.arg.s, {"."})
        loc == LocationOf(tree, segs, h.cfg.caseSen) IN
    Conforms(tree, segs, h.cfg.caseSen)
        => /\ h.res = Null
           /\ (IF h.i = "v2" THEN getValueByPath(after, h.arg.s, h.cfg.caseSen)
               ELSE indexGetValueByPath(after, h.arg)) = h.val
           /\ At(after, loc) = h.val
           /\ \A ks \in Locations(tree) :
                 (~IsPrefix(ks, loc) /\ ~IsPrefix(loc, ks)) => At(after, ks) = At(tree, ks)

\* C29: for every tree whose intermediates along p are missing or are containers
\* of the kind p expects, and every sub-path p of identifiers and bracketed
\* indices, getAt(setAt(tree, p, v), p) = v, and every location of the tree that
\* is not on p keeps its value; a getAt that follows the setAt returns v.
C29_SetGetRoundTrip ==
    \A n \in 1..Len(hist) :
        /\ hist[n].op = "setAt" => RoundTrip(n)
        /\ (/\ n > 1 /\ hist[n].op = "getAt" /\ hist[n - 1].op = "setAt"
            /\ hist[n].arg = hist[n - 1].arg /\ hist[n].i = hist[n - 1].i
            /\ hist[n].cfg = hist[n - 1].cfg
            /\ Conforms(hist[n - 1].pre[M], Split(hist[n].arg.s, {"."}), hist[n].cfg.caseSen))
              => hist[n].res = hist[n - 1].val

\* The tree has no undefined array element (a tree parsed from JSON text has
\* none; the padding of setAt leaves one in the tree it returns).
NoFiller(tree) == \A ks \in Locations(tree) : ks = <<>> \/ At(tree, ks) # Undef

\* C29 on trees without undefined elements: the round trip and the frame hold.
C29_RoundTripWithoutFiller ==
    \A n \in 1..Len(hist) :
        (hist[n].op = "setAt" /\ NoFiller(hist[n].pre[M])) => RoundTrip(n)

\* An intermediate location on the sub-path holds a scalar or null: the tree
\* itself, a property that a further segment or a bracketed index descends into,
\* or an array element that a further segment descends into.
RECURSIVE Conflicts(_, _, _)
Conflicts(cur, segs, caseSen) ==
    IF cur.t \notin {"obj", "arr"} THEN cur # Undef
    ELSE LET seg == Head(segs)
             x == GetProp(cur, Named(cur, seg, caseSen))
             elem == IF ~ArrayMatch(seg).ok THEN x
                     ELSE IF x.t = "arr" THEN ElemAt(x, ArrayMatch(seg).index)
                     ELSE Undef IN
         \/ ArrayMatch(seg).ok /\ x.t \notin {"undef", "arr", "obj"}
         \/ Len(segs) > 1 /\ elem # Undef /\ Conflicts(elem, Tail(segs), caseSen)

\* The setAt at position n of hist completed and a getAt on its sub-path returns
\* the value written.
Written(n) ==
    /\ hist[n].res = Null
    /\ (IF hist[n].i = "v2"
        THEN getValueByPath(hist[n].post[M], hist[n].arg.s, hist[n].cfg.caseSen)
        ELSE indexGetValueByPath(hist[n].post[M], hist[n].arg)) = hist[n].val

\* C30: setAt clobbers type conflicts without error: when an intermediate location
\* on the sub-path holds a scalar or null (an object property, an array element
\* reached through a bracketed segment, or the tree itself), setAt replaces it by
\* a fresh container and completes without raising, and a getAt on the same
\* sub-path returns the value written.
C30_ClobberWithoutError ==
    \A n \in 1..Len(hist) :
        (/\ hist[n].op = "setAt"
         /\ Conflicts(hist[n].pre[M], Split(hist[n].arg.s, {"."}), hist[n].cfg.caseSen))
            => Written(n)

\* C30 where the scalar or null is held by a property of an object of the tree
\* and the sub-path has no bracketed index: the property is replaced.
C30_PropertyClobbered ==
    \A n \in 1..Len(hist) :
        (/\ hist[n].op = "setAt"
         /\ hist[n].pre[M].t = "obj"
         /\ \A j \in 1..Len(Split(hist[n].arg.s, {"."})) :
               ~ArrayMatch(Split(hist[n].arg.s, {"."})[j]).ok
         /\ Conflicts(hist[n].pre[M], Split(hist[n].arg.s, {"."}), hist[n].cfg.caseSen))
            => Written(n)

(***************************************************************************)
(* Claim C31 (checked under SpecAt)                                        *)
(***************************************************************************)
\* The traversal of the sub-path of the getAt at position n of hist meets a
\* non-container, a missing property or a missing index.
Misses(n) ==
    At(hist[n].pre[M],
       LocationOf(hist[n].pre[M], Split(hist[n].arg.s, {"."}), hist[n].cfg.caseSen)) = Undef

\* C31: getAt is total on misses: for every tree (null, scalars and arrays
\* included) and every sub-path, getAt returns undefined when the traversal meets
\* a non-container, a missing property or a missing index, and raises no error.
C31_GetAtTotal ==
    \A n \in 1..Len(hist) :
        hist[n].op = "getAt"
            => /\ hist[n].res.t # "thrown"
               /\ Misses(n) => hist[n].res = Undef

\* C31 for v1, and for v2 on a tree that is not falsy.
C31_GetAtTotalOnTruthyTrees ==
    \A n \in 1..Len(hist) :
        (hist[n].op = "getAt" /\ (hist[n].i = "v1" \/ Truthy(hist[n].pre[M])))
            => /\ hist[n].res.t # "thrown"
               /\ Misses(n) => hist[n].res = Undef

(***************************************************************************)
(* Claim C32 (checked under SpecAt)                                        *)
(***************************************************************************)
\* The application n is a deleteAt of a location that getAt reads as undefined.
DeletesAbsent(n) ==
    /\ hist[n].op = "deleteAt"
    /\ indexGetValueByPath(hist[n].pre[M], hist[n].arg) = Undef

\* C32: deleteAt of an absent location is a no-op: for every tree, a null or
\* scalar tree included, and every sub-path that getAt reads as undefined,
\* deleteAt raises no error and returns a tree equal to the one it was given.
C32_DeleteAbsentNoOp ==
    \A n \in 1..Len(hist) :
        DeletesAbsent(n) => /\ hist[n].res.t # "thrown"
                            /\ hist[n].post[M] = hist[n].pre[M]

\* What holds of C32: on every tree but null, deleteAt of an absent location
\* returns the tree unchanged.
C32_DeleteAbsentNoOpOnNonNullTrees ==
    \A n \in 1..Len(hist) :
        DeletesAbsent(n) /\ hist[n].pre[M] # Null
            => /\ hist[n].res.t # "thrown"
               /\ hist[n].post[M] = hist[n].pre[M]

(***************************************************************************)
(* Claim C33 (checked under SpecHole)                                      *)
(***************************************************************************)
\* The elements of the array stored under t.items of database A in doc.
Items(doc) ==
    GetProp(deserializeValue(GetProp(IndexMap(doc, DbA), <<"t">>)),
            <<"i", "t", "e", "m", "s">>).e

\* The call at position n of hist is removePath('t', 'items[i]') on an array
\* that has an index i.
RemovesItem(n, i) ==
    /\ hist[n].op = "removePath"
    /\ hist[n].arg = <<(<<"t">>), ItemPath(i)>>
    /\ i < Len(Items(hist[n].pre))

\* A read that yields no element: undefined, or the null that stands for a
\* hole in the stored text of an array.
NoElement(v) == v \in {Undef, Null}

\* C33: array deletion leaves a hole: after removePath with sub-path items[i]
\* on a stored array the array keeps its length, every element at an index
\* j # i is still stored, and read by get, at the same index j, and index i
\* holds, and reads as, no element.
C33_ArrayDeletionLeavesHole ==
    \A n \in 1..Len(hist), i \in HoleIndices :
        RemovesItem(n, i)
            => LET before == Items(hist[n].pre)
                   after == Items(hist[n].post)
               IN  /\ hist[n].res = Null
                   /\ Len(after) = Len(before)
                   /\ \A j \in 0..(Len(before) - 1) :
                         IF j = i THEN NoElement(after[j + 1])
                         ELSE after[j + 1] = before[j + 1]
                   /\ \A j \in HoleIndices :
                         n < Len(hist) /\ hist[n + 1].op = "get"
                                       /\ hist[n + 1].arg = <<(<<"t">>), ItemPath(j)>>
                            => IF j = i THEN NoElement(hist[n + 1].res)
                               ELSE hist[n + 1].res
                                       = (IF j < Len(before) THEN before[j + 1] ELSE Undef)

\* C33's case: items[1] of [1, 2, 3] was removed and get then read the old
\* items[2] at items[2].
C33_ArrayDeletionLeavesHole_Witness ==
    \E n \in 1..(Len(hist) - 1) :
        /\ RemovesItem(n, 1)
        /\ Items(hist[n].pre) = <<Num(1), Num(2), Num(3)>>
        /\ hist[n + 1].op = "get"
        /\ hist[n + 1].arg = <<(<<"t">>), ItemPath(2)>>
        /\ hist[n + 1].res = Num(3)

(***************************************************************************)
(* Claim C34 (checked under SpecNest)                                      *)
(***************************************************************************)
\* A shortcut sentinel lies somewhere inside v, below its top.
RECURSIVE HoldsShortcutInside(_)
HoldsShortcutInside(v) ==
    \/ v.t = "obj" /\ \E n \in 1..Len(v.kv) :
                         IsShortcut(v.kv[n][2]) \/ HoldsShortcutInside(v.kv[n][2])
    \/ v.t = "arr" /\ \E n \in 1..Len(v.e) :
                         IsShortcut(v.e[n]) \/ HoldsShortcutInside(v.e[n])

\* C34: shortcuts exist only as whole top-level entries: after any sequence of
\* setShortcut calls a shortcut sentinel is found only as the entire value of a
\* flat-map key, never nested inside another value, also when the name given
\* to setShortcut carries a sub-path.
C34_ShortcutsOnlyTopLevel ==
    \A d \in DOMAIN root : \A k \in KeySet(root[d]) :
        ~HoldsShortcutInside(GetProp(root[d], k))

\* What holds of C34: a setShortcut whose name is a plain key stores the
\* sentinel as the entire value of that key.
C34_PlainNameStoresWholeEntry ==
    \A n \in 1..Len(hist) :
        /\ hist[n].op = "set"
        /\ IsShortcut(hist[n].val)
        /\ hist[n].arg = Str(<<"a">>)
        /\ hist[n].res.t = "set"
        => GetProp(hist[n].post[M], <<"a">>) = hist[n].val

(***************************************************************************)
(* Claim C35 (checked under SpecQuota)                                     *)
(***************************************************************************)
\* The call at position n of hist is a set that ran its quota check on an
\* instance with a global budget and no folder budget, the flat map being
\* within the budget.
SetWithinGlobalBudget(n) ==
    /\ hist[n].op = "set"
    /\ hist[n].loads > 0
    /\ hist[n].cfg.quota # Null
    /\ hist[n].cfg.folderQuotas = <<>>
    /\ calculateSize(hist[n].pre[M]) <= hist[n].cfg.quota.n

\* C35: global budget invariant: with a global budget B and no folder budgets,
\* a flat map whose serialized size is at most B before a set has a serialized
\* size of at most B after it, whatever the outcome of the set.
C35_GlobalBudgetInvariant ==
    \A n \in 1..Len(hist) :
        SetWithinGlobalBudget(n)
            => calculateSize(hist[n].post[M]) <= hist[n].cfg.quota.n

\* What holds of C35: a rejected set leaves the flat map, and so its size, as
\* it was.
C35_RejectedSetKeepsSize ==
    \A n \in 1..Len(hist) :
        SetWithinGlobalBudget(n) /\ hist[n].res = Rejected
            => hist[n].post[M] = hist[n].pre[M]

(***************************************************************************)
(* Claim C36 (checked under SpecFolders)                                   *)
(***************************************************************************)
\* The budget configured for folder in the folder budgets m, 0 if none is.
BudgetOf(m, folder) ==
    IF \E n \in 1..Len(m) : m[n][1] = folder
    THEN m[CHOOSE n \in 1..Len(m) : m[n][1] = folder][2]
    ELSE 0

\* The size the check projects for folder when value is written at path of db.
ProjectedSize(db, folder, path, value) ==
    calculateFolderSize(db, folder)
        - (IF Truthy(GetProp(db, path)) THEN calculateSize(GetProp(db, path)) ELSE 0)
        + calculateSize(value)

\* The check at position n of hist ran with budgets on both folders that cover
\* the key.
BothBudgetsCover(n) ==
    /\ hist[n].op = "checkQuotaBeforeSet"
    /\ hist[n].arg = NestedKey
    /\ \A f \in {OuterFolder, InnerFolder} :
          \E e \in 1..Len(hist[n].cfg.folderQuotas) : hist[n].cfg.folderQuotas[e][1] = f

\* The write checked at position n fits the budget of folder.
FitsBudget(n, folder) ==
    ProjectedSize(hist[n].pre[M], folder, hist[n].arg, hist[n].val)
        <= BudgetOf(hist[n].cfg.folderQuotas, folder)

\* C36: all covering folder budgets are enforced: when the budgets of folders a
\* and a\b both cover the written key, the write is let through unmodified only
\* if its projected size fits both budgets, in whichever order setFolderQuota
\* configured them.
C36_AllCoveringBudgetsEnforced ==
    \A n \in 1..Len(hist) :
        BothBudgetsCover(n) /\ hist[n].res.allowed /\ ~hist[n].res.storeNull
            => FitsBudget(n, OuterFolder) /\ FitsBudget(n, InnerFolder)

\* What holds of C36: the budget of the covering folder that was configured
\* first is enforced.
C36_FirstCoveringBudgetEnforced ==
    \A n \in 1..Len(hist) :
        BothBudgetsCover(n) /\ hist[n].res.allowed /\ ~hist[n].res.storeNull
            => FitsBudget(n, hist[n].cfg.folderQuotas[1][1])

(***************************************************************************)
(* Claim C37 (checked under SpecRead)                                      *)
(***************************************************************************)
ReadOps == {"get", "has", "keys"}

\* C37: reads have no effect on stored state: get, has and keys leave the set of
\* registered databases and the flat map of every database as they were, also
\* when the path carries the name of a database that does not exist yet.
C37_ReadsHaveNoEffect ==
    \A n \in 1..Len(hist) :
        hist[n].op \in ReadOps
            => /\ DOMAIN hist[n].post = DOMAIN hist[n].pre
               /\ \A d \in DOMAIN hist[n].pre :
                     LoadedMap(hist[n].post, d) = LoadedMap(hist[n].pre, d)

\* What holds of C37: a read leaves the flat map of every database that was
\* registered as it was, and a read that names no database but registered ones
\* leaves the stored document as it was.
C37_ReadsKeepRegisteredDatabases ==
    \A n \in 1..Len(hist) :
        hist[n].op \in ReadOps
            => /\ \A d \in DOMAIN hist[n].pre :
                     /\ d \in DOMAIN hist[n].post
                     /\ LoadedMap(hist[n].post, d) = LoadedMap(hist[n].pre, d)
               /\ (hist[n].arg = Undef
                      \/ parseFullPath(hist[n].arg).dbName \in DOMAIN hist[n].pre \cup {NoDb})
                     => hist[n].post = hist[n].pre

(***************************************************************************)
(* Claim C38 (checked under Spec)                                          *)
(***************************************************************************)
\* The call at position n of hist is a set of the promise-mode instance whose
\* path passed validation.
PromiseSet(n) ==
    /\ hist[n].op = "set"
    /\ hist[n].i = "promise"
    /\ hist[n].res # ErrorMessage("InvalidPath")

\* v is a key-to-value map that holds every key of the map before.
MapKeeping(before, v) ==
    /\ v.t = "obj"
    /\ before.t = "obj" => KeySet(before) \subseteq KeySet(v)

\* C38: the persisted value of a database is always a key-to-value map: after
\* every set, one whose path normalizes to the empty string included, the
\* stored database is a map that still holds the keys it held before, and the
\* set itself, coming after earlier ones, worked.
C38_DatabaseAlwaysMap ==
    \A n \in 1..Len(hist) :
        PromiseSet(n) => /\ MapKeeping(hist[n].pre[M], hist[n].post[M])
                         /\ hist[n].res.t = "set"

\* What holds of C38: a set whose path does not normalize to the empty string
\* leaves a database that is a map a map with the keys it held.
C38_NonEmptyPathKeepsMap ==
    \A n \in 1..Len(hist) :
        /\ PromiseSet(n)
        /\ parseFullPath(hist[n].arg).path # <<>>
        /\ hist[n].pre[M].t = "obj"
        => MapKeeping(hist[n].pre[M], hist[n].post[M])

(***************************************************************************)
(* Claim C39 (checked under SpecCase)                                      *)
(***************************************************************************)
\* Some container of v holds two keys that are equal ignoring case.
RECURSIVE HoldsCaseTwins(_)
HoldsCaseTwins(v) ==
    \/ v.t = "obj" /\ \E a, b \in 1..Len(v.kv) :
                         a # b /\ toLowerCase(v.kv[a][1]) = toLowerCase(v.kv[b][1])
    \/ v.t = "obj" /\ \E n \in 1..Len(v.kv) : HoldsCaseTwins(v.kv[n][2])
    \/ v.t = "arr" /\ \E n \in 1..Len(v.e) : HoldsCaseTwins(v.e[n])

\* C39: case-insensitive uniqueness: in case-insensitive mode no container of
\* the stored tree, the flat map included, holds two keys that are equal
\* ignoring case, whether the sets that built it used plain segments or segments
\* with a bracketed index.
C39_CaseInsensitiveUniqueness ==
    \A d \in DOMAIN root : ~HoldsCaseTwins(deserializeData(root[d]))

\* Every set the page made named plain segments only.
OnlyPlainSegments ==
    \A n \in 1..Len(hist) :
        hist[n].op = "set" => \A m \in 1..Len(Segments(hist[n].arg)) :
                                 ~ArrayMatch(Segments(hist[n].arg)[m]).ok

\* What holds of C39: sets that name plain segments only leave no two keys that
\* are equal ignoring case.
C39_UniquenessWithPlainSegments ==
    OnlyPlainSegments => \A d \in DOMAIN root : ~HoldsCaseTwins(deserializeData(root[d]))

(***************************************************************************)
(* Reachable states in which the code departs from the claims              *)
(***************************************************************************)
\* Direct-call mode: set of a plain key on a fresh database threw TypeError.
C1_DirectSetThrows ==
    \E n \in 1..Len(hist) :
        /\ hist[n].op = "set" /\ hist[n].i = "direct" /\ hist[n].arg = PlainKey
        /\ Fresh(hist[n].pre)
        /\ hist[n].res = Thrown("TypeError")

\* Promise mode: set('a:b', v) went through and created database a with key b.
C2_ColonWritesOtherDatabase ==
    \E n \in 1..Len(hist) :
        /\ hist[n].op = "set" /\ hist[n].i = "promise" /\ hist[n].arg = ColonPath
        /\ hist[n].res.t = "set"
        /\ <<"a">> \notin DOMAIN hist[n].pre
        /\ <<"a">> \in DOMAIN hist[n].post
        /\ GetProp(hist[n].post[<<"a">>], <<"b">>) = hist[n].val

\* Promise mode: set('..', 1) went through and the flat map was replaced by 1.
C3_DotDotReplacesMap ==
    \E n \in 1..Len(hist) :
        /\ hist[n].op = "set" /\ hist[n].i = "promise" /\ hist[n].arg = DotDot
        /\ hist[n].res.t = "set"
        /\ hist[n].pre[M] = EmptyObj
        /\ hist[n].val = Num(1) /\ hist[n].post[M] = Num(1)

\* Direct-call mode: get through a chain of shortcuts that ends at a value threw.
C4_DirectChainThrows ==
    \E n \in 1..Len(hist) :
        /\ ChainRead(hist[n]) /\ hist[n].i = "direct"
        /\ hist[n].res = Thrown("TypeError")

\* Promise mode, case-insensitive: get of a stored shortcut in another casing
\* returned the sentinel.
C6_SentinelReturned ==
    \E n \in 1..Len(hist) :
        /\ hist[n].op = "get" /\ hist[n].i = "promiseCI"
        /\ IsShortcut(MatchedEntry(hist[n].pre, hist[n].arg, hist[n].i))
        /\ IsShortcut(hist[n].res)

\* Direct-call mode: a set in the null-fallback case threw, the key keeps its entry.
C7_DirectNullFallbackThrows ==
    \E n \in 1..Len(hist) :
        /\ NullFallbackCase(hist[n]) /\ hist[n].i = "direct"
        /\ hist[n].res = Thrown("TypeError")
        /\ hist[n].status = "null"

\* Direct-call mode: a set in the rejection case threw, the status is not cannotSave.
C8_DirectRejectionThrows ==
    \E n \in 1..Len(hist) :
        /\ RejectionCase(hist[n]) /\ hist[n].i = "direct"
        /\ hist[n].res = Thrown("TypeError")
        /\ hist[n].status = "null"

\* Promise mode: a write within its folder budget was decided by the global quota:
\* null was stored in place of the candidate.
C9_GlobalQuotaApplied ==
    \E n \in 1..Len(hist) :
        /\ hist[n].op = "set" /\ hist[n].i = "promise" /\ Covering(hist[n]) # {}
        /\ FolderProjected(hist[n]) <= Active(hist[n]).budget
        /\ hist[n].cfg.quota # Null
        /\ GlobalProjected(hist[n]) > hist[n].cfg.quota.n
        /\ hist[n].val # Null /\ StoredNull(hist[n])

\* Promise mode, no global quota: a write that fits its folder budget exactly was
\* stored, and the status is not meet.
C10_FolderFitNotMeet ==
    \E n \in 1..Len(hist) :
        /\ hist[n].op = "set" /\ hist[n].i = "promise" /\ Covering(hist[n]) # {}
        /\ hist[n].cfg.quota = Null
        /\ Active(hist[n]).projected = Active(hist[n]).budget
        /\ StoredUnmodified(hist[n])
        /\ hist[n].status = "null"

\* Promise mode: remove('a', 'root') on the keys a, a\b, a\b\c, a\d kept the direct
\* children a\b and a\d and removed the deeper key a\b\c.
C12_RootKeepsDirectChildren ==
    \E n \in 1..Len(hist) :
        /\ hist[n].op = "remove" /\ hist[n].arg = << <<Str(<<"a">>), "root">> >>
        /\ Len(hist[n].steps) = 2
        /\ hist[n].steps[1] = ExampleMap
        /\ KeySet(Revive(hist[n].post[M])) =
              { <<"a">>, <<"a", BackSlash, "b">>, <<"a", BackSlash, "d">> }

\* Promise mode: remove('a', 'nestedFolders') on the keys a, a\b, a\b\c, a\d left
\* the keys a, a\b and a\d, which is also what 'root' leaves of that map.
C13_NestedKeepsFolderKey ==
    \E n \in 1..Len(hist) :
        /\ hist[n].op = "remove" /\ hist[n].arg = << <<Str(<<"a">>), "nestedFolders">> >>
        /\ Len(hist[n].steps) = 2
        /\ hist[n].steps[1] = ExampleMap
        /\ KeySet(Revive(hist[n].post[M])) =
              { <<"a">>, <<"a", BackSlash, "b">>, <<"a", BackSlash, "d">> }
        /\ Revive(hist[n].post[M]) = deleteRootKeys(ExampleMap, ExampleFolder)

\* Direct-call mode: remove(null, 'database') returned undefined and the stored
\* document is what it was, database M still listed with its keys.
C15_DirectRemoveDoesNothing ==
    \E h \in Removed({"direct"}) :
        /\ h.arg = DatabaseCall
        /\ h.res = Undef
        /\ Revive(h.pre[M]) = Obj(FlatEntries)
        /\ h.post = h.pre /\ root = h.pre
        /\ M \in listDatabases

\* Direct-call mode: remove('a/b', 'folder', 'a', 'structure') returned undefined,
\* applied no pair and issued no save: the stored map still has all five keys.
C16_DirectBatchNotApplied ==
    \E h \in Removed({"direct"}) :
        /\ h.arg = << <<Str(<<"a", "/", "b">>), "folder">>, <<Str(<<"a">>), "structure">> >>
        /\ h.res = Undef
        /\ h.steps = <<>> /\ h.saves = 0
        /\ MapOf(h.pre) = Obj(FlatEntries)
        /\ h.post = h.pre

\* Promise mode: remove(null, 'database', 'a', 'structure') wrote the root without
\* database M at the first pair and returned: the second pair was never applied.
C16_DatabasePairSkipsRest ==
    \E h \in Removed({"promise"}) :
        /\ h.arg = << <<Null, "database">>, <<Str(<<"a">>), "structure">> >>
        /\ Len(h.steps) = 1
        /\ M \notin DOMAIN h.post

\* Direct-call mode: remove('a', 'purge', 'a', 'folder') returned undefined; the
\* token was not warned about, the pair after it was not applied, nothing was saved.
C17_DirectUnknownNotReported ==
    \E h \in Removed({"direct"}) :
        /\ h.arg = << <<Str(<<"a">>), "purge">>, <<Str(<<"a">>), "folder">> >>
        /\ h.res = Undef
        /\ h.warn = <<>> /\ h.saves = 0
        /\ MapOf(h.pre) = Obj(FlatEntries)
        /\ h.post = h.pre

\* Promise mode: removeKey('c/t.lead') returned null without a save, the stored
\* document is unchanged and get('c/t.lead') still returns the value.
C18_SubPathNotRemoved ==
    /\ Len(hist) = 2
    /\ hist[1].op = "removeKey" /\ hist[1].i = "promise"
    /\ hist[1].arg = Str(<<"c", "/", "t", ".", "l", "e", "a", "d">>)
    /\ hist[1].res = Null /\ hist[1].saves = 0
    /\ hist[1].post = hist[1].pre
    /\ hist[2].op = "get" /\ hist[2].i = "promise" /\ hist[2].arg = hist[1].arg
    /\ hist[2].res = S1("z")

\* Direct-call mode: get('D:k') on the instance on M threw TypeError, while
\* get('k') on the instance on D returned the value D holds.
C19_DirectCrossReadThrows ==
    /\ Len(hist) = 2
    /\ CrossRead(1, 2)
    /\ hist[1].i = "direct" /\ hist[1].arg = Str(<<"D", ":", "k">>)
    /\ hist[1].res = Thrown("TypeError")
    /\ hist[2].i = "other" /\ hist[2].res = Num(3)

\* set('a', 1) on the fresh database: the instance in direct-call mode threw
\* TypeError and stored nothing, the instance in promise mode then stored 1 at a.
C22_DirectThrowsPromiseStores ==
    /\ Len(hist) = 2
    /\ SameCallBothModes(1, 2)
    /\ hist[1].op = "set" /\ hist[1].arg = PlainKey /\ hist[1].val = Num(1)
    /\ Fresh(hist[1].pre)
    /\ hist[1].res = Thrown("TypeError") /\ hist[1].post = hist[1].pre
    /\ hist[2].res.t = "set"
    /\ GetProp(DbMap(hist[2].post, M), <<"a">>) = Num(1)

\* C24: a set whose load failed took {} for the map, saved it over the stored
\* map (key h is gone) and returned saveResult null.
C24_FailedLoadSavedOver ==
    \E n \in 1..Len(hist) :
        /\ hist[n].op = "set" /\ hist[n].arg = Str(<<"g">>)
        /\ FailedCalls(hist[n]) = {"load"}
        /\ hist[n].res.t = "set" /\ hist[n].res.saveResult = Null
        /\ HasKey(deserializeData(hist[n].pre[M]), <<"h">>)
        /\ ~HasKey(deserializeData(hist[n].post[M]), <<"h">>)
        /\ HasKey(deserializeData(hist[n].post[M]), <<"g">>)

\* C25: T was created by set('T[0]', ...); a later set('t[0]', 2) of the
\* case-insensitive promise-mode instance made a second key t, and keys() reports
\* both.
C25_SecondCasingStored ==
    \E n \in 1..Len(hist) :
        /\ hist[n].op = "keys" /\ hist[n].i = "promiseCI"
        /\ hist[n].res = KeyList(<< <<"T">>, <<"t">> >>)
        /\ n > 1 /\ hist[n - 1].op = "set" /\ hist[n - 1].i = "promiseCI"
        /\ hist[n - 1].arg = Str(<<"t", "[", "0", "]">>)
        /\ ObjectKeys(deserializeData(hist[n - 1].pre[M])) = << <<"T">> >>

\* C29: setAt(tree, 'a[1]', v) on {} padded the new array with an undefined
\* element; on the tree it returned, v2's setAt(tree, 'a[0].b', w) threw TypeError
\* although a[0] is missing.
C29_FillerElementThrows ==
    /\ Len(hist) = 2
    /\ hist[1].op = "setAt" /\ hist[1].i = "v2" /\ hist[1].pre[M] = EmptyObj
    /\ hist[1].arg = Str(<<"a", "[", "1", "]">>) /\ hist[1].res = Null
    /\ hist[1].post[M] = Obj(<< <<<<"a">>, Arr(<<Undef, hist[1].val>>)>> >>)
    /\ hist[2].op = "setAt" /\ hist[2].i = "v2"
    /\ hist[2].arg = Str(<<"a", "[", "0", "]", ".", "b">>)
    /\ At(hist[2].pre[M], << <<"a">>, <<"0">> >>) = Undef
    /\ hist[2].res = Thrown("TypeError")

\* C30: the tree itself is the number 5 (in v1, the value stored at the key);
\* v1's setAt(5, 'a', v) threw TypeError instead of replacing it by a container.
C30_TopLevelScalarThrows ==
    \E n \in 1..Len(hist) :
        /\ hist[n].op = "setAt" /\ hist[n].i = "v1"
        /\ hist[n].pre[M] = Num(5) /\ hist[n].arg = Str(<<"a">>)
        /\ hist[n].res = Thrown("TypeError")
        /\ hist[n].post[M] = Num(5)

\* C31: v2's getAt(null, 'a.b') returned null, the tree itself, not undefined.
C31_NullTreeReturned ==
    \E n \in 1..Len(hist) :
        /\ hist[n].op = "getAt" /\ hist[n].i = "v2"
        /\ hist[n].pre[M] = Null /\ hist[n].arg = Str(<<"a", ".", "b">>)
        /\ hist[n].res = Null

\* C32: deleteAt of the null tree reads a property of null and throws.
C32_NullTreeThrows ==
    \E n \in 1..Len(hist) :
        /\ DeletesAbsent(n)
        /\ hist[n].pre[M] = Null
        /\ hist[n].arg = Str(<<"a", ".", "b">>)
        /\ hist[n].res = Thrown("TypeError")

\* C34: setShortcut('a.b', 'c') in promise mode stored the sentinel inside the
\* value of key a.
C34_SentinelNestedUnderKey ==
    /\ IsShortcut(GetProp(GetProp(root[M], <<"a">>), <<"b">>))
    /\ \E n \in 1..Len(hist) :
          /\ hist[n].op = "set"
          /\ hist[n].arg = Str(<<"a", ".", "b">>)
          /\ hist[n].val = Obj(<< <<ShortcutKey, Str(<<"c">>)>> >>)

\* C35: with budget 3 the empty map (2 bytes) took the new key f with value 1:
\* the projected size 2 - 0 + 1 left out the key, and the map stored has 7 bytes.
C35_NewKeyExceedsBudget ==
    \E n \in 1..Len(hist) :
        /\ SetWithinGlobalBudget(n)
        /\ hist[n].cfg.quota = Num(3)
        /\ hist[n].pre[M] = EmptyObj
        /\ hist[n].arg = Str(<<"f">>) /\ hist[n].val = Num(1)
        /\ hist[n].res.t = "set" /\ ~hist[n].res.storeNull
        /\ calculateSize(hist[n].post[M]) = 7

\* C36: with folder a (budget 6) configured before folder a\b (budget 2), a
\* value of 5 bytes for a\b\k was let through unmodified; configured in the other
\* order the same write is rejected.
C36_InnerBudgetSkipped ==
    \E n \in 1..Len(hist) :
        /\ BothBudgetsCover(n)
        /\ hist[n].cfg.folderQuotas = << <<OuterFolder, 6>>, <<InnerFolder, 2>> >>
        /\ hist[n].pre[M] = EmptyObj
        /\ hist[n].val = Num(12345)
        /\ hist[n].res.allowed /\ ~hist[n].res.storeNull

\* C36: the same write checked with a\b configured first.
C36_InnerBudgetFirstRejects ==
    \E n \in 1..Len(hist) :
        /\ BothBudgetsCover(n)
        /\ hist[n].cfg.folderQuotas = << <<InnerFolder, 2>>, <<OuterFolder, 6>> >>
        /\ hist[n].pre[M] = EmptyObj
        /\ hist[n].val = Num(12345)
        /\ ~hist[n].res.allowed

\* C37: get('C:k') on the promise-mode instance of A registered database C.
C37_GetRegistersDatabase ==
    \E n \in 1..Len(hist) :
        /\ hist[n].op = "get" /\ hist[n].i = "promise"
        /\ hist[n].arg = Str(<<"C", ":", "k">>)
        /\ hist[n].res = Undef
        /\ DbC \notin DOMAIN hist[n].pre
        /\ DbC \in DOMAIN hist[n].post
        /\ LoadedMap(hist[n].post, DbC) = EmptyObj

\* C38: set('..', 1) stored the number 1 as database M, and the set of key a
\* that followed failed on it.
C38_DatabaseReplacedByNumber ==
    /\ Len(hist) = 2
    /\ PromiseSet(1) /\ hist[1].arg = Str(<<".", ".">>) /\ hist[1].val = Num(1)
    /\ hist[1].res.t = "set"
    /\ hist[1].post[M] = Num(1)
    /\ PromiseSet(2) /\ hist[2].arg = Str(<<"a">>)
    /\ hist[2].res = ErrorMessage("TypeError")
    /\ root[M] = Num(1)

\* C39: on the empty database set('T[0]', 2) and then set('t[0]', 2) left the flat
\* map with the keys T and t.
C39_BracketedSegmentTwins ==
    /\ Len(hist) = 2
    /\ deserializeData(hist[1].pre[M]) = EmptyObj
    /\ hist[1].op = "set" /\ hist[1].i = "promiseCI"
    /\ hist[1].arg = Str(<<"T", "[", "0", "]">>)
    /\ hist[2].op = "set" /\ hist[2].i = "promiseCI"
    /\ hist[2].arg = Str(<<"t", "[", "0", "]">>)
    /\ ObjectKeys(deserializeData(root[M])) = << <<"T">>, <<"t">> >>

====
